---- MODULE Spec2Model ----
(***************************************************************************)
(* The tech stack recommendation engine of devalex-toolbox                 *)
(* (src/core/agents/tech_advisor.py) and the reset command                 *)
(* (src/core/cli/commands/tech.py), as a state machine over the three JSON *)
(* stores in ~/.devalex/tech_advisor.                                      *)
(*                                                                         *)
(* Conventions.  A Python dict is a function whose DOMAIN is its key set;  *)
(* a dict whose iteration order matters (a preference map, a keyword       *)
(* table) is a sequence of <<key, value>> pairs in insertion order.        *)
(* Python None in a slot is the value None below.  Scores, confidences and *)
(* the open-source bias are floats with one decimal in the source and are  *)
(* kept in tenths (0.9 is 9), which preserves every comparison made.       *)
(* Strings are TLC strings: \o concatenates, SubSeq slices.                *)
(***************************************************************************)
EXTENDS Integers, Sequences, FiniteSets, TLC

VARIABLES
    prefsFile,      \* user_preferences.json:  [state, data]
    patternsFile,   \* learned_patterns.json:  [state, data]
    compatFile,     \* compatibility.json:     [state, data]
    lastOp,         \* the operation that produced this state
    userInput,      \* the user_input dict of the last call, as the call left it
    req,            \* requirements record of the last call
    draft,          \* _generate_recommendations result of the last call
    validated,      \* _validate_compatibility result
    complete,       \* _fill_missing_pieces result
    final,          \* _apply_open_source_bias result (the returned stack)
    winBase,        \* usage_frequency as loadable when the current window began
    winCalls,       \* signature -> successful calls in the current window
    nOps,           \* operations performed (bounds the exploration)
    unit            \* the pure-function harness: inputs and results

storeVars == <<prefsFile, patternsFile, compatFile>>
callVars  == <<userInput, req, draft, validated, complete, final>>
ghostVars == <<winBase, winCalls>>
vars == <<prefsFile, patternsFile, compatFile, lastOp, userInput, req, draft,
          validated, complete, final, winBase, winCalls, nOps, unit>>

-----------------------------------------------------------------------------
(* Python values *)

None == "<None>"

\* bool(v) of a str-or-None slot
Truthy(v) == v # None /\ v # ""

\* dict.get(k, default)
Get(d, k, default) == IF k \in DOMAIN d THEN d[k] ELSE default

\* d[k] = v on a copy of d
Put(d, k, v) == (k :> v) @@ d

\* f"{v}" of a str-or-None value: None prints as the four letters None
Fmt(v) == IF v = None THEN "None" ELSE v

\* a match that must begin and end at a word boundary
Contains_WholeWord(text, kw) ==
    LET IsLetter(c) == \E j \in 1..26 : SubSeq("abcdefghijklmnopqrstuvwxyz", j, j) = c
    IN  \E i \in 1..(Len(text) - Len(kw) + 1) :
            /\ SubSeq(text, i, i + Len(kw) - 1) = kw
            /\ i = 1 \/ ~IsLetter(SubSeq(text, i - 1, i - 1))
            /\ i + Len(kw) - 1 = Len(text)
                  \/ ~IsLetter(SubSeq(text, i + Len(kw), i + Len(kw)))

\* keyword in text  (str.__contains__)
Contains(text, kw) ==
    \E i \in 1..(Len(text) - Len(kw) + 1) : SubSeq(text, i, i + Len(kw) - 1) = kw

LowerChar(c) ==
    CASE c = "A" -> "a" [] c = "B" -> "b" [] c = "C" -> "c" [] c = "D" -> "d"
      [] c = "E" -> "e" [] c = "F" -> "f" [] c = "G" -> "g" [] c = "H" -> "h"
      [] c = "I" -> "i" [] c = "J" -> "j" [] c = "K" -> "k" [] c = "L" -> "l"
      [] c = "M" -> "m" [] c = "N" -> "n" [] c = "O" -> "o" [] c = "P" -> "p"
      [] c = "Q" -> "q" [] c = "R" -> "r" [] c = "S" -> "s" [] c = "T" -> "t"
      [] c = "U" -> "u" [] c = "V" -> "v" [] c = "W" -> "w" [] c = "X" -> "x"
      [] c = "Y" -> "y" [] c = "Z" -> "z" [] OTHER -> c

RECURSIVE Lower(_)
\* str.lower()
Lower(s) ==
    IF Len(s) = 0 THEN ""
    ELSE LowerChar(SubSeq(s, 1, 1)) \o Lower(SubSeq(s, 2, Len(s)))

\* the elements of a list, as a set
Range(s) == {s[i] : i \in 1..Len(s)}

\* the keys of an ordered map
Keys(m) == {m[i][1] : i \in 1..Len(m)}

-----------------------------------------------------------------------------
(* Hard-coded defaults *)

\* confidence of a user-specified category, and of each fallback (tenths)
ConfUser == 9
ConfFrontend == 8
ConfBackend == 7
ConfDatabase == 7
ConfHosting == 6
\* open_source_bias threshold and its default when the key is missing (tenths)
BiasThreshold == 5
BiasDefault == 9

DefaultPreferences ==
    [ language_preferences |->
          << <<"python", 9>>, <<"typescript", 8>>, <<"javascript", 7>>,
             <<"rust", 6>>, <<"go", 5>> >>,
      framework_preferences |->
          [ frontend |-> << <<"react", 9>>, <<"nextjs", 8>>, <<"svelte", 7>>,
                            <<"vue", 6>> >>,
            backend  |-> << <<"fastapi", 9>>, <<"express", 8>>, <<"nestjs", 7>>,
                            <<"django", 6>> >> ],
      database_preferences |->
          << <<"postgresql", 9>>, <<"sqlite", 8>>, <<"mongodb", 6>> >>,
      hosting_preferences |->
          << <<"vercel", 9>>, <<"railway", 8>>, <<"fly.io", 7>>, <<"render", 7>>,
             <<"netlify", 6>> >>,
      open_source_bias |-> 9,
      license_preferences |-> <<"MIT", "Apache-2.0", "BSD-3-Clause">>,
      avoid_licenses |-> <<"GPL", "AGPL">>,
      complexity_preference |-> "medium",
      learning_rate |-> 1 ]

\* what _load_learned_patterns returns without a readable file
DefaultPatterns ==
    [ successful_combinations |-> <<>>,
      failed_combinations |-> <<>>,
      usage_frequency |-> <<>> ]

DefaultCompatibilityRules ==
    [ incompatible_combinations |-> <<"react+django", "vue+flask">>,
      backend_database_support |->
          [ fastapi |-> <<"postgresql", "mysql", "sqlite", "mongodb">>,
            django  |-> <<"postgresql", "mysql", "sqlite">>,
            flask   |-> <<"postgresql", "mysql", "sqlite", "mongodb">>,
            express |-> <<"postgresql", "mysql", "mongodb", "sqlite">>,
            nestjs  |-> <<"postgresql", "mysql", "mongodb", "sqlite">> ],
      hosting_compatibility |->
          ("vercel"  :> <<"nextjs", "react", "vue", "svelte", "express">>) @@
          ("netlify" :> <<"react", "vue", "svelte", "gatsby">>) @@
          ("railway" :> <<"fastapi", "django", "express", "nestjs">>) @@
          ("fly.io"  :> <<"fastapi", "django", "express", "nestjs", "rust", "go">>),
      successful_combinations |->
          <<"react+fastapi+postgresql+vercel", "nextjs+postgresql+vercel",
            "svelte+fastapi+sqlite+railway", "vue+express+mongodb+netlify">> ]

-----------------------------------------------------------------------------
(* The three stores.  A file is absent, holds invalid JSON, or holds a      *)
(* value; json.dump followed by json.load returns the dumped value for the *)
(* dicts, lists, strings and numbers stored here.                          *)

Absent == [state |-> "absent", data |-> <<>>]
Corrupt == [state |-> "corrupt", data |-> <<>>]
Valid(v) == [state |-> "valid", data |-> v]

\* the value _load_user_preferences returns
_load_user_preferences(file) ==
    IF file.state = "valid" THEN file.data ELSE DefaultPreferences

\* a loader that saves the defaults whatever the file held
PrefsFileAfterLoad_Rewrites(file) == Valid(DefaultPreferences)

\* the preferences file after _load_user_preferences: _create_default_preferences
\* writes the defaults when the file was absent or unreadable
PrefsFileAfterLoad(file) ==
    IF file.state = "valid" THEN file ELSE Valid(DefaultPreferences)

\* a loader that returns an empty dict for a file it cannot parse
_load_learned_patterns_Empty(file) ==
    IF file.state = "valid" THEN file.data
    ELSE IF file.state = "corrupt" THEN <<>> ELSE DefaultPatterns

\* the value _load_learned_patterns returns; it never writes
_load_learned_patterns(file) ==
    IF file.state = "valid" THEN file.data ELSE DefaultPatterns

_load_compatibility_rules(file) ==
    IF file.state = "valid" THEN file.data ELSE DefaultCompatibilityRules

CompatFileAfterLoad(file) ==
    IF file.state = "valid" THEN file ELSE Valid(DefaultCompatibilityRules)

-----------------------------------------------------------------------------
(* Requirement parser *)

Categories == <<"frontend", "backend", "database", "hosting">>

frontend_patterns ==
    << <<"react",   <<"react", "jsx", "tsx">> >>,
       <<"vue",     <<"vue", "nuxt">> >>,
       <<"svelte",  <<"svelte", "sveltekit">> >>,
       <<"angular", <<"angular", "@angular">> >>,
       <<"nextjs",  <<"next.js", "nextjs", "next">> >>,
       <<"remix",   <<"remix">> >>,
       <<"solid",   <<"solidjs", "solid">> >> >>

backend_patterns ==
    << <<"fastapi", <<"fastapi", "fast api">> >>,
       <<"django",  <<"django">> >>,
       <<"flask",   <<"flask">> >>,
       <<"express", <<"express", "node.js", "nodejs">> >>,
       <<"nestjs",  <<"nest.js", "nestjs">> >>,
       <<"spring",  <<"spring", "spring boot">> >>,
       <<"rails",   <<"rails", "ruby on rails">> >>,
       <<"laravel", <<"laravel">> >>,
       <<"rust",    <<"rust", "actix", "warp", "axum">> >>,
       <<"go",      <<"golang", "go", "gin", "echo">> >> >>

database_patterns ==
    << <<"postgresql",  <<"postgres", "postgresql", "pg">> >>,
       <<"mysql",       <<"mysql">> >>,
       <<"mongodb",     <<"mongo", "mongodb">> >>,
       <<"sqlite",      <<"sqlite">> >>,
       <<"redis",       <<"redis">> >>,
       <<"supabase",    <<"supabase">> >>,
       <<"firebase",    <<"firebase", "firestore">> >>,
       <<"planetscale", <<"planetscale">> >>,
       <<"turso",       <<"turso">> >>,
       <<"neon",        <<"neon">> >> >>

hosting_patterns ==
    << <<"vercel",     <<"vercel">> >>,
       <<"netlify",    <<"netlify">> >>,
       <<"aws",        <<"aws", "amazon web services">> >>,
       <<"gcp",        <<"google cloud", "gcp">> >>,
       <<"azure",      <<"azure">> >>,
       <<"railway",    <<"railway">> >>,
       <<"fly.io",     <<"fly.io", "fly">> >>,
       <<"render",     <<"render">> >>,
       <<"cloudflare", <<"cloudflare", "workers">> >> >>

PatternsOf(category) ==
    CASE category = "frontend" -> frontend_patterns
      [] category = "backend"  -> backend_patterns
      [] category = "database" -> database_patterns
      [] category = "hosting"  -> hosting_patterns

\* any(keyword in tech_mentions for keyword in keywords)
AnyKeyword(keywords, tech_mentions) ==
    \E i \in 1..Len(keywords) : Contains(tech_mentions, keywords[i])

\* a detection loop that walks each table from its last entry to its first
Detected_Reversed(patterns, tech_mentions) ==
    LET hits == SelectSeq(patterns, LAMBDA p : AnyKeyword(p[2], tech_mentions))
    IN  [i \in 1..Len(hits) |-> hits[Len(hits) + 1 - i][1]]

\* the technologies of one table detected in the text, in table order
Detected(patterns, tech_mentions) ==
    LET hits == SelectSeq(patterns, LAMBDA p : AnyKeyword(p[2], tech_mentions))
    IN  [i \in 1..Len(hits) |-> hits[i][1]]

\* requirements["user_specified"]: only categories with a detection get a key
UserSpecified(tech_mentions) ==
    LET cats == {Categories[i] : i \in 1..Len(Categories)}
        found == {c \in cats : Len(Detected(PatternsOf(c), tech_mentions)) > 0}
    IN  [c \in found |-> Detected(PatternsOf(c), tech_mentions)]

\* requirements["target_devices"]: user_input's list (or a fresh ["web"]) with
\* the detected devices appended
TargetDevices(user_input, tech_mentions) ==
    LET d0 == Get(user_input, "devices", <<"web">>)
        d1 == IF \/ Contains(tech_mentions, "mobile")
                 \/ Contains(tech_mentions, "ios")
                 \/ Contains(tech_mentions, "android")
              THEN Append(d0, "mobile") ELSE d0
    IN  IF \/ Contains(tech_mentions, "desktop")
           \/ Contains(tech_mentions, "electron")
           \/ Contains(tech_mentions, "tauri")
        THEN Append(d1, "desktop") ELSE d1

Constraints(tech_mentions) ==
    LET rt == Contains(tech_mentions, "real-time") \/ Contains(tech_mentions, "websocket")
        off == Contains(tech_mentions, "offline")
        ks == (IF rt THEN {"realtime"} ELSE {}) \cup (IF off THEN {"offline"} ELSE {})
    IN  [k \in ks |-> TRUE]

_parse_requirements(user_input) ==
    LET tech_mentions == Lower(Get(user_input, "description", ""))
    IN  [ project_type   |-> Get(user_input, "type", "webapp"),
          target_devices |-> TargetDevices(user_input, tech_mentions),
          user_specified |-> UserSpecified(tech_mentions),
          constraints    |-> Constraints(tech_mentions),
          preferences    |-> <<>> ]

\* user_input after the call: requirements["target_devices"] is the very list
\* object user_input["devices"], so the appends show in the caller's dict
UserInputAfterParse(user_input) ==
    IF "devices" \in DOMAIN user_input
    THEN Put(user_input, "devices",
             TargetDevices(user_input, Lower(Get(user_input, "description", ""))))
    ELSE user_input

-----------------------------------------------------------------------------
(* Recommendation generator *)

FrontendPrefs(preferences) ==
    Get(Get(preferences, "framework_preferences", <<>>), "frontend", <<>>)
BackendPrefs(preferences) ==
    Get(Get(preferences, "framework_preferences", <<>>), "backend", <<>>)
DatabasePrefs(preferences) == Get(preferences, "database_preferences", <<>>)
HostingPrefs(preferences) == Get(preferences, "hosting_preferences", <<>>)

RECURSIVE MaxIdx_LastWins(_, _, _)
\* a maximum search in which a later item of equal score replaces the best
MaxIdx_LastWins(items, i, best) ==
    IF i > Len(items) THEN best
    ELSE MaxIdx_LastWins(items, i + 1,
                         IF items[i][2] >= items[best][2] THEN i ELSE best)

RECURSIVE MaxIdx(_, _, _)
\* the index max(items, key=score) returns: a later item replaces the best so
\* far only when its score is strictly greater
MaxIdx(items, i, best) ==
    IF i > Len(items) THEN best
    ELSE MaxIdx(items, i + 1, IF items[i][2] > items[best][2] THEN i ELSE best)

\* max(prefs.items(), key=lambda x: x[1])[0]; raises ValueError on an empty map
MaxKey(items) == items[MaxIdx(items, 2, 1)][1]

\* the first loop: user-specified technologies, confidence 0.9
UserChoice(requirements, category) ==
    LET us == requirements.user_specified
    IN  IF category \in DOMAIN us /\ Len(us[category]) > 0
        THEN us[category][1] ELSE None

WantsFrontendFallback(requirements) ==
    /\ ~Truthy(UserChoice(requirements, "frontend"))
    /\ requirements.project_type \in {"webapp", "mobile"}

\* the fallbacks that call max() on a preference map
FrontendUsesMax(requirements) ==
    /\ WantsFrontendFallback(requirements)
    /\ "mobile" \notin Range(requirements.target_devices)
BackendUsesMax(requirements, context) ==
    /\ ~Truthy(UserChoice(requirements, "backend"))
    /\ context.detected_languages \cap {"python", "typescript", "javascript"} = {}
DatabaseUsesMax(requirements) ==
    /\ ~Truthy(UserChoice(requirements, "database"))
    /\ ~Get(requirements.constraints, "realtime", FALSE)
HostingUsesMax(requirements) ==
    ~Truthy(UserChoice(requirements, "hosting"))

\* _generate_recommendations ends in ValueError: max() of an empty map
GenerateRaises(requirements, preferences, context) ==
    \/ FrontendUsesMax(requirements) /\ Len(FrontendPrefs(preferences)) = 0
    \/ BackendUsesMax(requirements, context) /\ Len(BackendPrefs(preferences)) = 0
    \/ DatabaseUsesMax(requirements) /\ Len(DatabasePrefs(preferences)) = 0
    \/ HostingUsesMax(requirements) /\ Len(HostingPrefs(preferences)) = 0

\* a frontend fallback that runs for every project type
FrontendChoice_AnyType(requirements, preferences) ==
    IF Truthy(UserChoice(requirements, "frontend")) THEN UserChoice(requirements, "frontend")
    ELSE IF "mobile" \in Range(requirements.target_devices) THEN "react-native"
    ELSE MaxKey(FrontendPrefs(preferences))

FrontendChoice(requirements, preferences) ==
    IF Truthy(UserChoice(requirements, "frontend")) THEN UserChoice(requirements, "frontend")
    ELSE IF ~WantsFrontendFallback(requirements) THEN None
    ELSE IF "mobile" \in Range(requirements.target_devices) THEN "react-native"
    ELSE MaxKey(FrontendPrefs(preferences))

\* a backend fallback that answers django for a python project
BackendChoice_Django(requirements, preferences, context) ==
    IF Truthy(UserChoice(requirements, "backend")) THEN UserChoice(requirements, "backend")
    ELSE IF "python" \in context.detected_languages THEN "django"
    ELSE IF context.detected_languages \cap {"typescript", "javascript"} # {} THEN "express"
    ELSE MaxKey(BackendPrefs(preferences))

BackendChoice(requirements, preferences, context) ==
    IF Truthy(UserChoice(requirements, "backend")) THEN UserChoice(requirements, "backend")
    ELSE IF "python" \in context.detected_languages THEN "fastapi"
    ELSE IF context.detected_languages \cap {"typescript", "javascript"} # {} THEN "express"
    ELSE MaxKey(BackendPrefs(preferences))

DatabaseChoice(requirements, preferences) ==
    IF Truthy(UserChoice(requirements, "database")) THEN UserChoice(requirements, "database")
    ELSE IF Get(requirements.constraints, "realtime", FALSE) THEN "postgresql"
    ELSE MaxKey(DatabasePrefs(preferences))

HostingChoice(requirements, preferences) ==
    IF Truthy(UserChoice(requirements, "hosting")) THEN UserChoice(requirements, "hosting")
    ELSE MaxKey(HostingPrefs(preferences))

\* confidence scores in which the react-native branch records no confidence
ConfidenceScores_NoMobile(requirements) ==
    LET cats == {Categories[i] : i \in 1..Len(Categories)}
        scored == {c \in cats : \/ Truthy(UserChoice(requirements, c))
                                \/ c # "frontend"
                                \/ FrontendUsesMax(requirements)}
    IN  [c \in scored |->
            IF Truthy(UserChoice(requirements, c)) THEN ConfUser
            ELSE CASE c = "frontend" -> ConfFrontend
                   [] c = "backend"  -> ConfBackend
                   [] c = "database" -> ConfDatabase
                   [] c = "hosting"  -> ConfHosting]

\* recommendations["confidence_scores"]
ConfidenceScores(requirements) ==
    LET cats == {Categories[i] : i \in 1..Len(Categories)}
        scored == {c \in cats : \/ Truthy(UserChoice(requirements, c))
                                \/ c # "frontend"
                                \/ WantsFrontendFallback(requirements)}
    IN  [c \in scored |->
            IF Truthy(UserChoice(requirements, c)) THEN ConfUser
            ELSE CASE c = "frontend" -> ConfFrontend
                   [] c = "backend"  -> ConfBackend
                   [] c = "database" -> ConfDatabase
                   [] c = "hosting"  -> ConfHosting]

\* "needle" in str(stack): the dict's repr holds its keys and its values; no key
\* of a draft stack holds the needles looked for, so the scalar values decide
StrOfStackContains(stack, needle, lowered) ==
    \E k \in {"frontend", "backend", "database", "hosting"} :
        Contains(IF lowered THEN Lower(Fmt(stack[k])) ELSE Fmt(stack[k]), needle)

\* the tools list before list(set(tools)), in append order
ToolsAppended(stack) ==
    LET fe == stack.frontend
        be == stack.backend
        ts == StrOfStackContains(stack, "typescript", FALSE)
        js == StrOfStackContains(stack, "javascript", FALSE)
    IN  <<"git">>
        \o (IF fe \in {"react", "nextjs", "vue", "svelte"} THEN <<"npm">> ELSE <<>>)
        \o (IF be \in {"fastapi", "django", "flask"} THEN <<"pip">> ELSE <<>>)
        \o (IF be \in {"express", "nestjs"} THEN <<"npm">> ELSE <<>>)
        \o (IF StrOfStackContains(stack, "typescript", TRUE) THEN <<"typescript">> ELSE <<>>)
        \o (IF fe \in {"react", "nextjs"} THEN <<"jest", "testing-library">> ELSE <<>>)
        \o (IF be \in {"fastapi", "django"} THEN <<"pytest">> ELSE <<>>)
        \o (IF be \in {"express", "nestjs"} THEN <<"jest">> ELSE <<>>)
        \o (IF js \/ ts THEN <<"eslint", "prettier">> ELSE <<>>)
        \o (IF be \in {"fastapi", "django", "flask"} THEN <<"black", "flake8">> ELSE <<>>)
        \o (IF stack.hosting = "vercel" THEN <<"vercel-cli">>
            ELSE IF stack.hosting = "railway" THEN <<"railway-cli">> ELSE <<>>)
        \o (IF stack.database = "postgresql" THEN <<"psql">>
            ELSE IF stack.database = "mongodb" THEN <<"mongosh">> ELSE <<>>)

RECURSIVE ListOfSet(_)
\* list(set(...)): each element once, in an order the source does not fix
ListOfSet(S) ==
    IF S = {} THEN <<>>
    ELSE LET x == CHOOSE x \in S : TRUE IN <<x>> \o ListOfSet(S \ {x})

_suggest_tools(stack, requirements) == ListOfSet(Range(ToolsAppended(stack)))

_generate_recommendations(requirements, preferences, patterns, context) ==
    LET chosen ==
            [ frontend |-> FrontendChoice(requirements, preferences),
              backend  |-> BackendChoice(requirements, preferences, context),
              database |-> DatabaseChoice(requirements, preferences),
              hosting  |-> HostingChoice(requirements, preferences),
              tools    |-> <<>>,
              confidence_scores |-> ConfidenceScores(requirements) ]
    IN  Put(chosen, "tools", _suggest_tools(chosen, requirements))

-----------------------------------------------------------------------------
(* Compatibility validator *)

\* a validator that looks the pair up with the backend first
CompatibilityIssues_BackendFirst(recommendations, compatibility_rules) ==
    LET frontend == Get(recommendations, "frontend", None)
        backend  == Get(recommendations, "backend", None)
    IN  IF /\ Truthy(frontend) /\ Truthy(backend)
           /\ (backend \o "+" \o frontend)
                  \in Range(Get(compatibility_rules, "incompatible_combinations", <<>>))
        THEN << frontend \o " and " \o backend \o " have known compatibility issues" >>
        ELSE <<>>

\* a validator that treats a backend without an entry as supporting nothing
CompatibilityIssues_NoEntryFlagged(recommendations, compatibility_rules) ==
    LET backend  == Get(recommendations, "backend", None)
        database == Get(recommendations, "database", None)
        support  == Get(compatibility_rules, "backend_database_support", <<>>)
    IN  IF /\ Truthy(backend) /\ Truthy(database)
           /\ database \notin Range(Get(support, backend, <<>>))
        THEN << backend \o " has limited support for " \o database >>
        ELSE <<>>

CompatibilityIssues(recommendations, compatibility_rules) ==
    LET frontend == Get(recommendations, "frontend", None)
        backend  == Get(recommendations, "backend", None)
        database == Get(recommendations, "database", None)
        support  == Get(compatibility_rules, "backend_database_support", <<>>)
    IN  (IF /\ Truthy(frontend) /\ Truthy(backend)
            /\ (frontend \o "+" \o backend)
                   \in Range(Get(compatibility_rules, "incompatible_combinations", <<>>))
         THEN << frontend \o " and " \o backend \o " have known compatibility issues" >>
         ELSE <<>>)
        \o
        (IF /\ Truthy(backend) /\ Truthy(database)
            /\ backend \in DOMAIN support
            /\ database \notin Range(support[backend])
         THEN << backend \o " has limited support for " \o database >>
         ELSE <<>>)

\* a validator that drops the backend of a stack it finds issues in
_validate_compatibility_Blocking(recommendations, compatibility_rules) ==
    LET issues == CompatibilityIssues(recommendations, compatibility_rules)
    IN  Put(IF issues = <<>> THEN recommendations
            ELSE Put(recommendations, "backend", None),
            "compatibility_issues", issues)

_validate_compatibility(recommendations, compatibility_rules) ==
    Put(recommendations, "compatibility_issues",
        CompatibilityIssues(recommendations, compatibility_rules))

-----------------------------------------------------------------------------
(* Gap filler *)

css_recommendations ==
    [ react |-> "tailwindcss", nextjs |-> "tailwindcss", vue |-> "tailwindcss",
      svelte |-> "tailwindcss", angular |-> "angular-material" ]

orm_recommendations ==
    [ fastapi |-> [postgresql |-> "sqlalchemy", sqlite |-> "sqlalchemy", mongodb |-> "motor"],
      django  |-> [postgresql |-> "django-orm", mysql |-> "django-orm", sqlite |-> "django-orm"],
      express |-> [postgresql |-> "prisma", mysql |-> "prisma", mongodb |-> "mongoose"],
      nestjs  |-> [postgresql |-> "typeorm", mysql |-> "typeorm", mongodb |-> "mongoose"] ]

\* FillCss made to wait for an auth choice, which is filled later in the pass
FillCss_AfterAuth(s) ==
    IF /\ Truthy(Get(s, "frontend", None)) /\ ~Truthy(Get(s, "css", None))
       /\ Truthy(Get(s, "auth", None))
    THEN Put(s, "css", Get(css_recommendations, s["frontend"], "tailwindcss"))
    ELSE s

FillCss(s) ==
    IF Truthy(Get(s, "frontend", None)) /\ ~Truthy(Get(s, "css", None))
    THEN Put(s, "css", Get(css_recommendations, s["frontend"], "tailwindcss"))
    ELSE s

FillStateManagement(s, project_type) ==
    IF Get(s, "frontend", None) \in {"react", "nextjs"} /\ project_type # "simple"
    THEN Put(s, "state_management", "zustand")
    ELSE IF Get(s, "frontend", None) = "vue"
    THEN Put(s, "state_management", "pinia")
    ELSE s

FillOrm(s) ==
    IF /\ Truthy(Get(s, "backend", None)) /\ Truthy(Get(s, "database", None))
       /\ s["backend"] \in DOMAIN orm_recommendations
       /\ s["database"] \in DOMAIN orm_recommendations[s["backend"]]
    THEN Put(s, "orm", orm_recommendations[s["backend"]][s["database"]])
    ELSE s

FillAuth(s, project_type) ==
    IF ~Truthy(Get(s, "auth", None)) /\ project_type \in {"webapp", "mobile"}
    THEN Put(s, "auth",
             IF Get(s, "database", None) = "supabase" THEN "supabase-auth"
             ELSE IF Get(s, "database", None) = "firebase" THEN "firebase-auth"
             ELSE "jwt")
    ELSE s

FillRealtime(s, constraints) ==
    IF Get(constraints, "realtime", FALSE) /\ ~Truthy(Get(s, "realtime", None))
    THEN Put(s, "realtime",
             IF Get(s, "backend", None) \in {"fastapi", "express", "nestjs"}
             THEN "websockets" ELSE "sse")
    ELSE s

_fill_missing_pieces(stack, requirements) ==
    FillRealtime(
        FillAuth(
            FillOrm(
                FillStateManagement(FillCss(stack), requirements.project_type)),
            requirements.project_type),
        Get(requirements, "constraints", <<>>))

-----------------------------------------------------------------------------
(* Open-source bias filter *)

\* the table with an entry added whose key is another entry's replacement
open_source_alternatives_Chained ==
    ("firebase" :> "supabase") @@ ("auth0" :> "supabase-auth") @@
    ("mongodb-atlas" :> "postgresql") @@ ("vercel" :> "railway") @@
    ("railway" :> "fly.io")

open_source_alternatives ==
    ("firebase" :> "supabase") @@ ("auth0" :> "supabase-auth") @@
    ("mongodb-atlas" :> "postgresql") @@ ("vercel" :> "railway")

\* the keys of a stack whose values are lists or dicts, never strings
NonStringKeys ==
    {"tools", "confidence_scores", "compatibility_issues", "open_source_replacements"}

\* the order in which the pipeline inserts a stack's keys, which is the order
\* stack.items() iterates in
StackKeyOrder ==
    <<"frontend", "backend", "database", "hosting", "tools", "confidence_scores",
      "compatibility_issues", "css", "state_management", "orm", "auth", "realtime",
      "open_source_replacements">>

\* tech and isinstance(tech, str) and tech in open_source_alternatives
Substituted(stack, category) ==
    /\ category \in DOMAIN stack
    /\ category \notin NonStringKeys
    /\ Truthy(stack[category])
    /\ stack[category] \in DOMAIN open_source_alternatives

ReplacementNotes(stack) ==
    LET cats == SelectSeq(StackKeyOrder, LAMBDA c : Substituted(stack, c))
    IN  [i \in 1..Len(cats) |->
            "Replaced " \o stack[cats[i]] \o " with "
                \o open_source_alternatives[stack[cats[i]]]
                \o " (open source preference)"]

\* a filter that scores a substituted category as a database fallback
_apply_open_source_bias_Rescored(stack, preferences) ==
    IF Get(preferences, "open_source_bias", BiasDefault) < BiasThreshold
    THEN stack
    ELSE LET improved ==
                 [c \in DOMAIN stack |->
                     IF Substituted(stack, c)
                     THEN open_source_alternatives[stack[c]]
                     ELSE IF c = "confidence_scores"
                     THEN [k \in DOMAIN stack[c] |->
                              IF Substituted(stack, k) THEN ConfDatabase ELSE stack[c][k]]
                     ELSE stack[c]]
         IN  Put(improved, "open_source_replacements", ReplacementNotes(stack))

\* the filter with the threshold itself counted as "does not prefer open source"
_apply_open_source_bias_Le(stack, preferences) ==
    IF Get(preferences, "open_source_bias", BiasDefault) <= BiasThreshold
    THEN stack
    ELSE LET improved ==
                 [c \in DOMAIN stack |->
                     IF Substituted(stack, c)
                     THEN open_source_alternatives[stack[c]] ELSE stack[c]]
         IN  Put(improved, "open_source_replacements", ReplacementNotes(stack))

_apply_open_source_bias(stack, preferences) ==
    IF Get(preferences, "open_source_bias", BiasDefault) < BiasThreshold
    THEN stack
    ELSE LET improved ==
                 [c \in DOMAIN stack |->
                     IF Substituted(stack, c)
                     THEN open_source_alternatives[stack[c]] ELSE stack[c]]
         IN  Put(improved, "open_source_replacements", ReplacementNotes(stack))

-----------------------------------------------------------------------------
(* Learning feedback writer *)

\* combo_key: dict.get's default applies to a missing key only, and the
\* f-string prints a stored None as "None"
ComboKey(final_stack) ==
    Fmt(Get(final_stack, "frontend", "none")) \o "+"
        \o Fmt(Get(final_stack, "backend", "none")) \o "+"
        \o Fmt(Get(final_stack, "database", "none"))

\* LearnedPatterns with the count assigned instead of incremented
LearnedPatterns_Assign(patterns, requirements, final_stack) ==
    LET combo_key == ComboKey(final_stack)
        uf  == Get(patterns, "usage_frequency", <<>>)
        pta == Get(patterns, "project_type_associations", <<>>)
        pt  == requirements.project_type
        row == Get(pta, pt, <<>>)
    IN  Put(Put(patterns, "usage_frequency", Put(uf, combo_key, 1)),
            "project_type_associations",
            Put(pta, pt, Put(row, combo_key, Get(row, combo_key, 0) + 1)))

\* LearnedPatterns in which one row of associations serves every project type
LearnedPatterns_SharedRow(patterns, requirements, final_stack) ==
    LET combo_key == ComboKey(final_stack)
        uf  == Get(patterns, "usage_frequency", <<>>)
        pta == Get(patterns, "project_type_associations", <<>>)
        pt  == requirements.project_type
        row == Put(uf, combo_key, Get(uf, combo_key, 0) + 1)
    IN  Put(Put(patterns, "usage_frequency", row),
            "project_type_associations", Put(pta, pt, row))

\* LearnedPatterns with the project type's row rebuilt instead of updated
LearnedPatterns_NewRow(patterns, requirements, final_stack) ==
    LET combo_key == ComboKey(final_stack)
        uf  == Get(patterns, "usage_frequency", <<>>)
        pta == Get(patterns, "project_type_associations", <<>>)
        pt  == requirements.project_type
    IN  Put(Put(patterns, "usage_frequency",
                Put(uf, combo_key, Get(uf, combo_key, 0) + 1)),
            "project_type_associations",
            Put(pta, pt, (combo_key :> 1)))

\* the patterns dict _learn_from_interaction dumps, from the one it loaded
LearnedPatterns(patterns, requirements, final_stack) ==
    LET combo_key == ComboKey(final_stack)
        uf  == Get(patterns, "usage_frequency", <<>>)
        pta == Get(patterns, "project_type_associations", <<>>)
        pt  == requirements.project_type
        row == Get(pta, pt, <<>>)
    IN  Put(Put(patterns, "usage_frequency",
                Put(uf, combo_key, Get(uf, combo_key, 0) + 1)),
            "project_type_associations",
            Put(pta, pt, Put(row, combo_key, Get(row, combo_key, 0) + 1)))

\* the patterns file after _learn_from_interaction: whole-file overwrite
_learn_from_interaction(file, requirements, final_stack) ==
    Valid(LearnedPatterns(_load_learned_patterns(file), requirements, final_stack))

-----------------------------------------------------------------------------
(* Bounds and the inputs explored *)

\* operations (recommend calls and resets) in one behaviour
MaxOps == 2

\* user_input dicts given to analyze_and_recommend
UserInputs ==
    { [type |-> "webapp", description |-> "a react and fastapi app with postgres",
       devices |-> <<"web">>],
      [type |-> "webapp", description |-> "Vue and Flask app", devices |-> <<"web">>],
      [type |-> "api", description |-> "internal REST API", devices |-> <<"web">>],
      [type |-> "webapp", description |-> "Firebase app on Vercel", devices |-> <<"web">>],
      [type |-> "mobile", description |-> "mobile app with real-time chat",
       devices |-> <<"web", "mobile">>],
      [type |-> "api", description |-> "mongodb", devices |-> <<"web">>],
      [type |-> "mobile", description |-> "React, FastAPI, Postgres",
       devices |-> <<"web">>],
      [description |-> ""] }

\* _analyze_project_context results: the languages found in the project tree
Contexts ==
    { [detected_languages |-> {}],
      [detected_languages |-> {"python"}],
      [detected_languages |-> {"typescript", "javascript"}] }

\* a preferences file a user edited: below the bias threshold, ties at the top
PrefsLowBias ==
    [ framework_preferences |->
          [ frontend |-> << <<"svelte", 7>>, <<"vue", 9>>, <<"react", 9>> >>,
            backend  |-> << <<"django", 8>>, <<"flask", 8>> >> ],
      database_preferences |-> << <<"sqlite", 5>>, <<"firebase", 9>> >>,
      hosting_preferences |-> << <<"netlify", 6>>, <<"vercel", 6>> >>,
      open_source_bias |-> 3 ]

\* a preferences file with an empty hosting map and no open_source_bias key
PrefsEmptyHosting ==
    [ framework_preferences |->
          [ frontend |-> << <<"react", 9>> >>, backend |-> << <<"express", 8>> >> ],
      database_preferences |-> << <<"firebase", 9>>, <<"postgresql", 9>> >>,
      hosting_preferences |-> <<>> ]

\* a bias exactly on the threshold
PrefsThreshold ==
    [ framework_preferences |->
          [ frontend |-> << <<"nextjs", 8>>, <<"react", 8>> >>,
            backend  |-> << <<"nestjs", 7>>, <<"fastapi", 9>> >> ],
      database_preferences |-> << <<"mongodb", 9>> >>,
      hosting_preferences |-> << <<"railway", 8>>, <<"vercel", 9>> >>,
      open_source_bias |-> 5 ]

InitialPrefsFiles ==
    { Absent, Corrupt, Valid(DefaultPreferences), Valid(PrefsLowBias),
      Valid(PrefsEmptyHosting), Valid(PrefsThreshold) }

\* a pattern store left by earlier runs
PatternsSeed ==
    [ successful_combinations |-> <<>>,
      failed_combinations |-> <<>>,
      usage_frequency |->
          ("react+fastapi+postgresql" :> 2) @@ ("None+fastapi+postgresql" :> 1),
      project_type_associations |->
          ("webapp" :> ("react+fastapi+postgresql" :> 2)) @@
          ("api" :> ("None+fastapi+postgresql" :> 1)) ]

InitialPatternsFiles == { Absent, Corrupt, Valid(<<>>), Valid(PatternsSeed) }

CompatCustom ==
    [ incompatible_combinations |-> <<"react+fastapi">>,
      backend_database_support |-> [fastapi |-> <<"sqlite">>] ]

InitialCompatFiles == { Absent, Corrupt, Valid(DefaultCompatibilityRules), Valid(CompatCustom) }

-----------------------------------------------------------------------------
(* The operations *)

\* _parse_requirements on each input explored, evaluated once: the requirements
\* returned and user_input as the call leaves it
ParsedInputs ==
    [ui \in UserInputs |->
        [requirements |-> _parse_requirements(ui), user_input |-> UserInputAfterParse(ui)]]

NoCall == <<>>
NoUnit == [fn |-> "none"]

\* usage_frequency as the next load of the pattern store returns it
UsageFrequency(file) == Get(_load_learned_patterns(file), "usage_frequency", <<>>)
ProjectTypeAssociations(file) ==
    Get(_load_learned_patterns(file), "project_type_associations", <<>>)

Init ==
    /\ prefsFile \in InitialPrefsFiles
    /\ patternsFile \in InitialPatternsFiles
    /\ compatFile \in InitialCompatFiles
    /\ lastOp = "init"
    /\ userInput = NoCall /\ req = NoCall /\ draft = NoCall
    /\ validated = NoCall /\ complete = NoCall /\ final = NoCall
    /\ winBase = UsageFrequency(patternsFile)
    /\ winCalls = <<>>
    /\ nOps = 0
    /\ unit = NoUnit

\* analyze_and_recommend(user_input) returning its result
Recommend(user_input, context) ==
    LET requirements == ParsedInputs[user_input].requirements
        preferences  == _load_user_preferences(prefsFile)
        prefsFile1   == PrefsFileAfterLoad(prefsFile)
        patterns     == _load_learned_patterns(patternsFile)
    IN  /\ nOps < MaxOps
        /\ ~GenerateRaises(requirements, preferences, context)
        /\ LET recommendations == _generate_recommendations(requirements, preferences,
                                                            patterns, context)
               validated_stack == _validate_compatibility(recommendations,
                                      _load_compatibility_rules(compatFile))
               complete_stack  == _fill_missing_pieces(validated_stack, requirements)
               final_stack     == _apply_open_source_bias(complete_stack,
                                      _load_user_preferences(prefsFile1))
           IN  /\ prefsFile' = prefsFile1
               /\ compatFile' = CompatFileAfterLoad(compatFile)
               /\ patternsFile' = _learn_from_interaction(patternsFile, requirements,
                                                          final_stack)
               /\ userInput' = ParsedInputs[user_input].user_input
               /\ req' = requirements
               /\ draft' = recommendations
               /\ validated' = validated_stack
               /\ complete' = complete_stack
               /\ final' = final_stack
               /\ winCalls' = Put(winCalls, ComboKey(final_stack),
                                  Get(winCalls, ComboKey(final_stack), 0) + 1)
        /\ lastOp' = "recommend"
        /\ nOps' = nOps + 1
        /\ UNCHANGED <<winBase, unit>>

\* analyze_and_recommend(user_input) ending in the ValueError of max() on an
\* empty preference map: the preferences were loaded, nothing else was written
RecommendRaises(user_input, context) ==
    LET requirements == ParsedInputs[user_input].requirements
        preferences  == _load_user_preferences(prefsFile)
    IN  /\ nOps < MaxOps
        /\ GenerateRaises(requirements, preferences, context)
        /\ prefsFile' = PrefsFileAfterLoad(prefsFile)
        /\ userInput' = ParsedInputs[user_input].user_input
        /\ req' = requirements
        /\ draft' = NoCall /\ validated' = NoCall /\ complete' = NoCall /\ final' = NoCall
        /\ lastOp' = "raised"
        /\ nOps' = nOps + 1
        /\ UNCHANGED <<patternsFile, compatFile, winBase, winCalls, unit>>

\* a reset that leaves the file in place
DeletedFile_Kept(file) == file

\* a file after _reset_learning's exists()/unlink() on it
DeletedFile(file) == Absent

\* devalex tech reset, answered with `confirm`
ResetLearning(confirm) ==
    /\ nOps < MaxOps
    /\ IF Lower(confirm) # "y"
       THEN /\ lastOp' = "reset-cancelled"
            /\ UNCHANGED <<storeVars, ghostVars>>
       ELSE /\ prefsFile' = DeletedFile(prefsFile)
            /\ patternsFile' = DeletedFile(patternsFile)
            /\ compatFile' = DeletedFile(compatFile)
            /\ lastOp' = "reset"
            /\ winBase' = <<>>
            /\ winCalls' = <<>>
    /\ userInput' = NoCall /\ req' = NoCall /\ draft' = NoCall
    /\ validated' = NoCall /\ complete' = NoCall /\ final' = NoCall
    /\ nOps' = nOps + 1
    /\ UNCHANGED unit

Next ==
    \/ \E ui \in UserInputs, ctx \in Contexts : Recommend(ui, ctx)
    \/ \E ui \in UserInputs, ctx \in Contexts : RecommendRaises(ui, ctx)
    \/ \E confirm \in {"y", "Y", "n", ""} : ResetLearning(confirm)

Spec == Init /\ [][Next]_vars

-----------------------------------------------------------------------------
(* Properties of the pattern store and of reset *)

\* C1: pattern accumulation.  Within a window that starts at the initial
\* state or at a reset, after N successful recommendations that produced a
\* signature, the usage_frequency a load returns for it is its value when the
\* window began plus N.
PatternAccumulation ==
    \A sig \in DOMAIN winCalls :
        Get(UsageFrequency(patternsFile), sig, 0) = Get(winBase, sig, 0) + winCalls[sig]

\* two successive calls with one signature, on a store that already counted it
PatternAccumulationWitness ==
    /\ lastOp = "recommend"
    /\ \E sig \in DOMAIN winCalls : winCalls[sig] = 2 /\ Get(winBase, sig, 0) = 2

\* the counts of a nested map that are present in m and lower or missing in n
Lowered(m, n) == {k \in DOMAIN m : k \notin DOMAIN n \/ n[k] < m[k]}

\* n is m with exactly the entry k raised by 1 (created at 1 when missing)
RaisedOnlyAt(m, n, k) ==
    /\ DOMAIN n = DOMAIN m \cup {k}
    /\ n[k] = Get(m, k, 0) + 1
    /\ \A j \in DOMAIN m \ {k} : n[j] = m[j]

\* C2: pattern store monotonicity.  No step other than a reset lowers or drops
\* a count of usage_frequency or of project_type_associations, and a
\* successful recommendation raises exactly one entry of each map by exactly
\* 1 and changes no other entry.
PatternMonotonicity ==
    [][ LET uf   == UsageFrequency(patternsFile)
            uf2  == UsageFrequency(patternsFile')
            pta  == ProjectTypeAssociations(patternsFile)
            pta2 == ProjectTypeAssociations(patternsFile')
        IN  (lastOp' # "reset") =>
              /\ Lowered(uf, uf2) = {}
              /\ \A t \in DOMAIN pta : t \in DOMAIN pta2 /\ Lowered(pta[t], pta2[t]) = {}
              /\ (lastOp' = "recommend") =>
                    /\ \E sig \in DOMAIN uf2 : RaisedOnlyAt(uf, uf2, sig)
                    /\ \E t \in DOMAIN pta2 :
                          /\ DOMAIN pta2 = DOMAIN pta \cup {t}
                          /\ \A u \in DOMAIN pta \ {t} : pta2[u] = pta[u]
                          /\ \E sig \in DOMAIN pta2[t] :
                                RaisedOnlyAt(Get(pta, t, <<>>), pta2[t], sig)
      ]_vars

\* a recommendation on a store whose project type row held another signature
PatternMonotonicityWitness ==
    /\ lastOp = "recommend"
    /\ \E t \in DOMAIN ProjectTypeAssociations(patternsFile) :
          Cardinality(DOMAIN ProjectTypeAssociations(patternsFile)[t]) >= 2

\* the signature as documented: a slot with no technology reads "none"
SlotOrNone(stack, slot) ==
    IF slot \in DOMAIN stack /\ stack[slot] # None THEN stack[slot] ELSE "none"
DocumentedSignature(stack) ==
    SlotOrNone(stack, "frontend") \o "+" \o SlotOrNone(stack, "backend")
        \o "+" \o SlotOrNone(stack, "database")

\* C3: the signature written to the pattern store is
\* frontend+backend+database with every slot that has no technology rendered as
\* the lower-case string none.
SignatureUsesLowercaseNone ==
    lastOp = "recommend" =>
        DocumentedSignature(final) \in DOMAIN UsageFrequency(patternsFile)

\* C4: reset completeness.  After a confirmed reset the next read of each of
\* the three stores returns exactly its hard-coded default.
ResetCompleteness ==
    lastOp = "reset" =>
        /\ _load_user_preferences(prefsFile) = DefaultPreferences
        /\ _load_learned_patterns(patternsFile) = DefaultPatterns
        /\ _load_compatibility_rules(compatFile) = DefaultCompatibilityRules

\* a reset of stores that a recommendation had written
ResetCompletenessWitness ==
    lastOp = "reset" /\ nOps = MaxOps

-----------------------------------------------------------------------------
(* The gap filler on its own: _fill_missing_pieces applied to a stack, and   *)
(* again to its own result, for stacks and requirement records drawn from   *)
(* the sets below.                                                          *)

\* marks a key left out of a dict under construction
Missing == "<missing>"

\* the dict holding the chosen keys only
WithoutMissing(choices) ==
    [k \in {j \in DOMAIN choices : choices[j] # Missing} |-> choices[k]]

FillStacks ==
    { WithoutMissing(c) :
        c \in [ frontend : {Missing, None, "react", "vue", "angular"},
                backend  : {Missing, "fastapi", "flask"},
                database : {None, "postgresql", "supabase", "firebase"},
                css      : {Missing, None, "bootstrap"},
                state_management : {Missing, "redux"},
                orm      : {Missing, "raw-sql"},
                auth     : {Missing, None, "auth0"},
                realtime : {Missing, "polling"} ] }

FillRequirements ==
    [ project_type : {"webapp", "api", "simple"},
      target_devices : {<<"web">>},
      constraints : {<<>>, [realtime |-> TRUE]} ]

\* the variables the single-function specifications leave alone
UnitRest ==
    /\ patternsFile = Absent
    /\ compatFile = Absent
    /\ lastOp = "unit"
    /\ userInput = NoCall /\ req = NoCall /\ draft = NoCall
    /\ validated = NoCall /\ complete = NoCall /\ final = NoCall
    /\ winBase = <<>> /\ winCalls = <<>>
    /\ nOps = 0

\* the variables of the sequential machine other than the files and unit
machineVars == <<lastOp, userInput, req, draft, validated, complete, final,
               winBase, winCalls, nOps>>

restVars == <<patternsFile, compatFile, lastOp, userInput, req, draft, validated,
              complete, final, winBase, winCalls, nOps>>

InitFill ==
    /\ UnitRest
    /\ prefsFile = Absent
    /\ \E s \in FillStacks, r \in FillRequirements :
          unit = [fn |-> "fill", stack |-> s, requirements |-> r, step |-> 0,
                  once |-> NoCall, twice |-> NoCall]

FillOnce ==
    /\ unit.fn = "fill" /\ unit.step = 0
    /\ unit' = [unit EXCEPT !.step = 1,
                            !.once = _fill_missing_pieces(unit.stack, unit.requirements)]
    /\ UNCHANGED <<prefsFile, restVars>>

FillAgain ==
    /\ unit.fn = "fill" /\ unit.step = 1
    /\ unit' = [unit EXCEPT !.step = 2,
                            !.twice = _fill_missing_pieces(unit.once, unit.requirements)]
    /\ UNCHANGED <<prefsFile, restVars>>

NextFill == FillOnce \/ FillAgain

SpecFill == InitFill /\ [][NextFill]_vars

\* C5: idempotence of gap-filling.  Filling the result of a fill, with the
\* same requirement record, returns that result.
FillIdempotent ==
    unit.step = 2 => unit.twice = unit.once

\* a second fill of a stack to which the first fill added css, orm and auth
FillIdempotentWitness ==
    /\ unit.step = 2
    /\ {"css", "orm", "auth"} \cap DOMAIN unit.stack = {}
    /\ {"css", "orm", "auth"} \subseteq DOMAIN unit.once

GapSlots == {"css", "state_management", "orm", "auth", "realtime"}
PrimarySlots == {"frontend", "backend", "database", "hosting"}

\* C6: the gap filler never overwrites a pre-existing non-null value of css,
\* state_management, orm, auth, realtime or a primary slot.
FillNeverOverwrites ==
    unit.step >= 1 =>
        \A slot \in (GapSlots \cup PrimarySlots) \cap DOMAIN unit.stack :
            unit.stack[slot] # None => unit.once[slot] = unit.stack[slot]

-----------------------------------------------------------------------------
(* The open-source filter on its own: _apply_open_source_bias applied to a  *)
(* stack under the preferences file drawn below.  The keys of a drawn stack *)
(* are taken to have been inserted in StackKeyOrder.                        *)

FilterStacks ==
    { WithoutMissing(c) @@ lists :
        c \in [ frontend : {Missing, "react"},
                database : {None, "firebase", "mongodb-atlas", "postgresql", "vercel"},
                hosting  : {Missing, "vercel", "railway", "netlify"},
                orm      : {Missing, "prisma"},
                auth     : {Missing, "auth0", "firebase-auth", "jwt"} ],
        lists \in { <<>>,
                    [tools |-> <<"git", "vercel-cli">>, compatibility_issues |-> <<>>],
                    [tools |-> <<"vercel", "firebase">>,
                     open_source_replacements |-> <<"Replaced auth0 with supabase-auth">>] } }

\* preferences files that differ in open_source_bias only
FilterPrefsFiles ==
    { Absent, Corrupt, Valid(<<>>) }
        \cup { Valid([open_source_bias |-> b]) : b \in {0, 4, 5, 6, 10} }

InitFilter ==
    /\ UnitRest
    /\ prefsFile \in FilterPrefsFiles
    /\ \E s \in FilterStacks :
          unit = [fn |-> "filter", stack |-> s, step |-> 0, out |-> NoCall]

ApplyFilter ==
    /\ unit.fn = "filter" /\ unit.step = 0
    /\ unit' = [unit EXCEPT !.step = 1,
                            !.out = _apply_open_source_bias(unit.stack,
                                        _load_user_preferences(prefsFile))]
    /\ prefsFile' = PrefsFileAfterLoad(prefsFile)
    /\ UNCHANGED restVars

NextFilter == ApplyFilter

SpecFilter == InitFilter /\ [][NextFilter]_vars

\* the open_source_bias the filter reads
OpenSourceBias == Get(_load_user_preferences(prefsFile), "open_source_bias", 9)

\* the categories of a stack whose value is a string key of the table
HoldsTableKey(stack) ==
    {c \in DOMAIN stack \ NonStringKeys :
        stack[c] # None /\ stack[c] \in DOMAIN open_source_alternatives}

\* C9: substitution terminality.  With open_source_bias >= 0.5 no category of
\* the filter's output holds a string that is a key of the substitution
\* table, and no replacement value of the table is itself a key.
SubstitutionTerminal ==
    (unit.step = 1 /\ OpenSourceBias >= 5) =>
        /\ HoldsTableKey(unit.out) = {}
        /\ \A k \in DOMAIN open_source_alternatives :
              open_source_alternatives[k] \notin DOMAIN open_source_alternatives

\* the filter has replaced three table keys of one stack
SubstitutionTerminalWitness ==
    /\ unit.step = 1 /\ OpenSourceBias >= 5
    /\ Cardinality(HoldsTableKey(unit.stack)) = 3

\* C10: below the threshold the filter returns its input; otherwise it
\* replaces every category holding a table key by the table's alternative,
\* records one note per substitution in open_source_replacements and leaves
\* every other category as it was; database firebase becomes supabase with a
\* non-empty open_source_replacements.
FilterBehaviour ==
    unit.step = 1 =>
        IF OpenSourceBias < 5 THEN unit.out = unit.stack
        ELSE LET keys == HoldsTableKey(unit.stack)
                 notes == unit.out["open_source_replacements"]
             IN  /\ DOMAIN unit.out = DOMAIN unit.stack \cup {"open_source_replacements"}
                 /\ \A c \in DOMAIN unit.stack \ {"open_source_replacements"} :
                       unit.out[c] = IF c \in keys
                                     THEN open_source_alternatives[unit.stack[c]]
                                     ELSE unit.stack[c]
                 /\ Len(notes) = Cardinality(keys)
                 /\ \A c \in keys :
                       \E i \in 1..Len(notes) :
                           notes[i] = "Replaced " \o unit.stack[c] \o " with "
                                          \o open_source_alternatives[unit.stack[c]]
                                          \o " (open source preference)"
                 /\ (Get(unit.stack, "database", None) = "firebase") =>
                       (unit.out["database"] = "supabase" /\ Len(notes) > 0)

\* database firebase filtered under the default bias of an absent file
FilterBehaviourWitness ==
    /\ unit.step = 1
    /\ OpenSourceBias = 9
    /\ Get(unit.stack, "database", None) = "firebase"
    /\ unit.out["database"] = "supabase"

-----------------------------------------------------------------------------
(* The generator on its own: _generate_recommendations applied to a         *)
(* requirements record of the shape _parse_requirements returns, under a    *)
(* preferences dict and a project context drawn below, and applied again to *)
(* the same arguments.                                                      *)

\* a preferences file whose maxima are shared and do not come first
PrefsLateTies ==
    [ framework_preferences |->
          [ frontend |-> << <<"react", 9>>, <<"vue", 9>> >>,
            backend  |-> << <<"express", 5>>, <<"fastapi", 9>>, <<"django", 9>> >> ],
      database_preferences |-> << <<"sqlite", 3>>, <<"postgresql", 8>>, <<"mongodb", 8>> >>,
      hosting_preferences |->
          << <<"vercel", 2>>, <<"railway", 7>>, <<"netlify", 7>>, <<"fly.io", 7>> >>,
      open_source_bias |-> 9 ]

GenPreferences ==
    {DefaultPreferences, PrefsLowBias, PrefsEmptyHosting, PrefsThreshold, PrefsLateTies}

GenRequirements ==
    { [ project_type   |-> t,
        target_devices |-> d,
        user_specified |-> WithoutMissing(us),
        constraints    |-> c,
        preferences    |-> <<>> ] :
        t \in {"webapp", "api", "mobile"},
        d \in {<<"web">>, <<"web", "mobile">>},
        us \in [ frontend : {Missing, <<"react">>, <<"vue", "react">>},
                 backend  : {Missing, <<"flask">>},
                 database : {Missing, <<"mongodb">>},
                 hosting  : {Missing, <<"vercel">>} ],
        c \in {<<>>, [realtime |-> TRUE]} }

InitGen ==
    /\ UnitRest
    /\ prefsFile = Absent
    /\ \E r \in GenRequirements, p \in GenPreferences, x \in Contexts :
          unit = [fn |-> "generate", requirements |-> r, preferences |-> p,
                  context |-> x, step |-> 0, raised |-> FALSE,
                  out |-> NoCall, again |-> NoCall]

Generate ==
    /\ unit.fn = "generate" /\ unit.step = 0
    /\ ~GenerateRaises(unit.requirements, unit.preferences, unit.context)
    /\ unit' = [unit EXCEPT !.step = 1,
                            !.out = _generate_recommendations(unit.requirements,
                                        unit.preferences, DefaultPatterns, unit.context)]
    /\ UNCHANGED <<prefsFile, restVars>>

\* max() of an empty preference map: the call ends in ValueError
GenerateRaised ==
    /\ unit.fn = "generate" /\ unit.step = 0
    /\ GenerateRaises(unit.requirements, unit.preferences, unit.context)
    /\ unit' = [unit EXCEPT !.step = 1, !.raised = TRUE]
    /\ UNCHANGED <<prefsFile, restVars>>

\* a second run on the same arguments
GenerateAgain ==
    /\ unit.fn = "generate" /\ unit.step = 1 /\ ~unit.raised
    /\ unit' = [unit EXCEPT !.step = 2,
                            !.again = _generate_recommendations(unit.requirements,
                                          unit.preferences, DefaultPatterns, unit.context)]
    /\ UNCHANGED <<prefsFile, restVars>>

NextGen == Generate \/ GenerateRaised \/ GenerateAgain

SpecGen == InitGen /\ [][NextGen]_vars

\* the category's technology came from user_specified
FromUser(c) ==
    /\ c \in DOMAIN unit.requirements.user_specified
    /\ Len(unit.requirements.user_specified[c]) > 0

\* the generator returned a stack
Generated == unit.fn = "generate" /\ unit.step >= 1 /\ ~unit.raised

\* the confidence the fallback of a category assigns, in tenths
FallbackConfidence(c) ==
    CASE c = "frontend" -> 8
      [] c = "backend"  -> 7
      [] c = "database" -> 7
      [] c = "hosting"  -> 6

\* C7: confidence monotonicity.  In the generator's output a category taken
\* from user_specified has confidence 0.9, a category filled by a fallback
\* has frontend 0.8, backend 0.7, database 0.7, hosting 0.6, so a
\* user-specified category scores strictly above every fallback-derived one,
\* and every non-null primary category has a confidence entry.
ConfidenceMonotonicity ==
    Generated =>
        LET conf == unit.out.confidence_scores
            filled == {c \in PrimarySlots : unit.out[c] # None}
        IN  /\ filled \subseteq DOMAIN conf
            /\ \A c \in filled :
                  IF FromUser(c)
                  THEN unit.out[c] = unit.requirements.user_specified[c][1] /\ conf[c] = 9
                  ELSE conf[c] = FallbackConfidence(c)
            /\ \A c \in PrimarySlots : FromUser(c) => c \in filled
            /\ \A u \in filled, f \in filled :
                  (FromUser(u) /\ ~FromUser(f)) => conf[u] > conf[f]

\* a stack with a user-specified backend beside a react-native fallback
ConfidenceMonotonicityWitness ==
    /\ Generated
    /\ FromUser("backend") /\ ~FromUser("frontend")
    /\ unit.out.frontend = "react-native"
    /\ unit.out.confidence_scores["backend"] > unit.out.confidence_scores["frontend"]

\* the preference map the fallback of a category reads
PrefMap(c) ==
    CASE c = "frontend" -> FrontendPrefs(unit.preferences)
      [] c = "backend"  -> BackendPrefs(unit.preferences)
      [] c = "database" -> DatabasePrefs(unit.preferences)
      [] c = "hosting"  -> HostingPrefs(unit.preferences)

\* the fallback of a category queried its preference map
QueriedMap(c) ==
    CASE c = "frontend" -> FrontendUsesMax(unit.requirements)
      [] c = "backend"  -> BackendUsesMax(unit.requirements, unit.context)
      [] c = "database" -> DatabaseUsesMax(unit.requirements)
      [] c = "hosting"  -> HostingUsesMax(unit.requirements)

\* the positions of a map that hold its maximum score
TopPositions(items) ==
    {i \in 1..Len(items) : \A j \in 1..Len(items) : items[j][2] <= items[i][2]}

\* the first key, in insertion order, that holds the maximum score
FirstSeenTop(items) ==
    LET first == CHOOSE i \in TopPositions(items) :
                     \A j \in TopPositions(items) : i <= j
    IN  items[first][1]

\* C8: tie-break determinism.  When the preference map a fallback queried has
\* two or more entries with the maximum score, the technology chosen is the
\* key that comes first in the map's insertion order, and a repeated run on
\* the same map chooses the same key.
TieBreakFirstSeen ==
    Generated =>
        \A c \in PrimarySlots :
            (QueriedMap(c) /\ Cardinality(TopPositions(PrefMap(c))) >= 2) =>
                /\ unit.out[c] = FirstSeenTop(PrefMap(c))
                /\ unit.step = 2 => unit.again[c] = unit.out[c]

\* hosting chosen twice from a map whose three top entries follow a lower one
TieBreakFirstSeenWitness ==
    /\ Generated /\ unit.step = 2
    /\ QueriedMap("hosting")
    /\ Cardinality(TopPositions(PrefMap("hosting"))) = 3
    /\ 1 \notin TopPositions(PrefMap("hosting"))
    /\ unit.out.hosting = "railway"

-----------------------------------------------------------------------------
(* analyze_and_recommend statement by statement.  Each invocation is a      *)
(* process of its own (a separate run of the CLI on the same home           *)
(* directory) with its own locals; the three files are shared.  A step is   *)
(* one statement of analyze_and_recommend, except that the load and the     *)
(* write of _learn_from_interaction are steps of their own.  The files are  *)
(* JSON documents: a write replaces the document in one step.               *)

\* the answers of the external MCP tools to one invocation: raises is an
\* exception inside _validate_with_mcp's try block, active the integrations
\* get_available_integrations reports available (in dict order), the rest
\* what validate_tech_stack gathers from them
McpEnvs ==
    { [raises |-> TRUE, active |-> <<>>, validated_by |-> <<>>,
       security_issues |-> <<>>, recommendations |-> <<>>],
      [raises |-> TRUE, active |-> <<"semgrep">>, validated_by |-> <<>>,
       security_issues |-> <<>>, recommendations |-> <<>>],
      [raises |-> FALSE, active |-> <<>>, validated_by |-> <<>>,
       security_issues |-> <<>>, recommendations |-> <<>>],
      [raises |-> FALSE, active |-> <<"semgrep">>, validated_by |-> <<"semgrep">>,
       security_issues |-> <<"fastapi: hardcoded secret">>,
       recommendations |-> <<"Implement rate limiting to prevent abuse">>],
      [raises |-> FALSE, active |-> <<"context7", "mcpref">>, validated_by |-> <<>>,
       security_issues |-> <<>>, recommendations |-> <<>>] }

\* _validate_with_mcp with the early return missing
_validate_with_mcp_NoEarlyReturn(tech_stack, env) ==
    IF env.raises
    THEN [ status |-> "failed", error |-> "error", validated_by |-> <<>>,
           security_issues |-> <<>>, recommendations |-> <<>> ]
    ELSE [ validated_by |-> env.validated_by,
           security_issues |-> env.security_issues,
           compatibility_warnings |-> <<>>,
           recommendations |-> env.recommendations,
           license_issues |-> <<>>,
           status |-> "success",
           active_integrations |-> env.active ]

\* the dict _validate_with_mcp returns (the timestamp and the text of the
\* error are left out)
_validate_with_mcp(tech_stack, env) ==
    IF env.raises
    THEN [ status |-> "failed", error |-> "error", validated_by |-> <<>>,
           security_issues |-> <<>>, recommendations |-> <<>> ]
    ELSE IF Len(env.active) = 0
    THEN [ status |-> "no_integrations", message |-> "No MCP integrations available",
           validated_by |-> <<>>, security_issues |-> <<>>, recommendations |-> <<>> ]
    ELSE [ validated_by |-> env.validated_by,
           security_issues |-> env.security_issues,
           compatibility_warnings |-> <<>>,
           recommendations |-> env.recommendations,
           license_issues |-> <<>>,
           status |-> "success",
           active_integrations |-> env.active ]

\* analyze_and_recommend with the gap filler called before the validator
StepAfter_FillFirst(step) ==
    CASE step = "structured"    -> "parse"
      [] step = "parse"         -> "load_preferences"
      [] step = "load_preferences" -> "load_patterns"
      [] step = "load_patterns" -> "analyze_context"
      [] step = "analyze_context" -> "generate"
      [] step = "generate"      -> "fill"
      [] step = "fill"          -> "validate"
      [] step = "validate"      -> "filter"
      [] step = "filter"        -> "mcp"
      [] step = "mcp"           -> "learn_load"
      [] step = "learn_load"    -> "learn_write"
      [] step = "learn_write"   -> "done"

\* the statement that follows a statement of analyze_and_recommend
\* ("structured" is get_structured_recommendations before it calls in)
StepAfter(step) ==
    CASE step = "structured"    -> "parse"
      [] step = "parse"         -> "load_preferences"
      [] step = "load_preferences" -> "load_patterns"
      [] step = "load_patterns" -> "analyze_context"
      [] step = "analyze_context" -> "generate"
      [] step = "generate"      -> "validate"
      [] step = "validate"      -> "fill"
      [] step = "fill"          -> "filter"
      [] step = "filter"        -> "mcp"
      [] step = "mcp"           -> "learn_load"
      [] step = "learn_load"    -> "learn_write"
      [] step = "learn_write"   -> "done"

\* the parse of a user_input that get_structured_recommendations has parsed
\* already: the second parse reads the dict the first one left
ReparsedInputs ==
    [ui \in UserInputs |->
        [requirements |-> _parse_requirements(UserInputAfterParse(ui)),
         user_input |-> UserInputAfterParse(UserInputAfterParse(ui))]]

\* the locals of an invocation that has not run a statement yet
NewInvocation(entry, user_input, contexts, envs) ==
    [ pc |-> IF entry = "structured" THEN "structured" ELSE "parse",
      entry |-> entry,            \* the method the caller invoked
      given |-> user_input,       \* user_input as the caller built it
      user_input |-> user_input,  \* the caller's dict as it is now
      contexts |-> contexts,      \* what _analyze_project_context may find
      envs |-> envs,              \* what the MCP tools may answer
      context |-> NoCall, env |-> NoCall,
      requirements |-> NoCall, preferences |-> NoCall, patterns |-> NoCall,
      recommendations |-> NoCall, validated_stack |-> NoCall,
      complete_stack |-> NoCall, final_stack |-> NoCall,
      mcp_validation |-> NoCall,
      learned |-> NoCall,         \* patterns as _learn_from_interaction loaded them
      returned |-> NoCall,        \* the dict analyze_and_recommend returned
      trace |-> <<>>,             \* history: the statements run, in order
      at_entry |-> NoCall,        \* history: the pattern store when the call began
      wrote_after |-> NoCall,     \* history: the writes that preceded this one's
      writes |-> <<>> ]           \* history: the steps that wrote the pattern store

Procs == DOMAIN unit.procs
Proc(p) == unit.procs[p]

\* the invocation p after this step: locals replaced, pc moved on, step logged
Stepped(p, step, changes) ==
    unit' = [unit EXCEPT
                !.procs[p] = changes @@ [pc |-> StepAfter(step),
                                         trace |-> Append(@.trace, step)] @@ @,
                !.written = IF "writes" \in DOMAIN changes THEN Append(@, p) ELSE @]

At(p, step) == unit.fn = "pipeline" /\ Proc(p).pc = step

\* get_structured_recommendations up to its call of analyze_and_recommend:
\* it parses user_input itself first
DoStructured(p) ==
    /\ At(p, "structured")
    /\ Stepped(p, "structured",
               [user_input |-> ParsedInputs[Proc(p).given].user_input])
    /\ UNCHANGED <<storeVars, machineVars>>

DoParse(p) ==
    /\ At(p, "parse")
    /\ LET parsed == IF Proc(p).entry = "structured"
                     THEN ReparsedInputs[Proc(p).given]
                     ELSE ParsedInputs[Proc(p).given]
       IN  Stepped(p, "parse",
                   [requirements |-> parsed.requirements,
                    user_input |-> parsed.user_input,
                    at_entry |-> patternsFile])
    /\ UNCHANGED <<storeVars, machineVars>>

DoLoadPreferences(p) ==
    /\ At(p, "load_preferences")
    /\ Stepped(p, "load_preferences",
               [preferences |-> _load_user_preferences(prefsFile)])
    /\ prefsFile' = PrefsFileAfterLoad(prefsFile)
    /\ UNCHANGED <<patternsFile, compatFile, machineVars>>

DoLoadPatterns(p) ==
    /\ At(p, "load_patterns")
    /\ Stepped(p, "load_patterns",
               [patterns |-> _load_learned_patterns(patternsFile)])
    /\ UNCHANGED <<storeVars, machineVars>>

DoAnalyzeContext(p) ==
    /\ At(p, "analyze_context")
    /\ \E project_context \in Proc(p).contexts :
          Stepped(p, "analyze_context", [context |-> project_context])
    /\ UNCHANGED <<storeVars, machineVars>>

DoGenerate(p) ==
    /\ At(p, "generate")
    /\ ~GenerateRaises(Proc(p).requirements, Proc(p).preferences, Proc(p).context)
    /\ Stepped(p, "generate",
               [recommendations |->
                    _generate_recommendations(Proc(p).requirements, Proc(p).preferences,
                                              Proc(p).patterns, Proc(p).context)])
    /\ UNCHANGED <<storeVars, machineVars>>

\* a generator that leaves the categories unset where max() would have raised
DoGenerateRaises_Unset(p) ==
    /\ At(p, "generate")
    /\ GenerateRaises(Proc(p).requirements, Proc(p).preferences, Proc(p).context)
    /\ Stepped(p, "generate",
               [recommendations |->
                    [frontend |-> None, backend |-> None, database |-> None,
                     hosting |-> None, tools |-> <<"git">>,
                     confidence_scores |-> <<>>]])
    /\ UNCHANGED <<storeVars, machineVars>>

\* the ValueError of max() on an empty map leaves analyze_and_recommend
DoGenerateRaises(p) ==
    /\ At(p, "generate")
    /\ GenerateRaises(Proc(p).requirements, Proc(p).preferences, Proc(p).context)
    /\ unit' = [unit EXCEPT !.procs[p].pc = "raised",
                            !.procs[p].trace = Append(@, "generate")]
    /\ UNCHANGED <<storeVars, machineVars>>

DoValidate(p) ==
    /\ At(p, "validate")
    /\ Stepped(p, "validate",
               [validated_stack |->
                    _validate_compatibility(Proc(p).recommendations,
                                            _load_compatibility_rules(compatFile))])
    /\ compatFile' = CompatFileAfterLoad(compatFile)
    /\ UNCHANGED <<prefsFile, patternsFile, machineVars>>

DoFill(p) ==
    /\ At(p, "fill")
    /\ Stepped(p, "fill",
               [complete_stack |->
                    _fill_missing_pieces(Proc(p).validated_stack, Proc(p).requirements)])
    /\ UNCHANGED <<storeVars, machineVars>>

DoFilter(p) ==
    /\ At(p, "filter")
    /\ Stepped(p, "filter",
               [final_stack |->
                    _apply_open_source_bias(Proc(p).complete_stack,
                                            _load_user_preferences(prefsFile))])
    /\ prefsFile' = PrefsFileAfterLoad(prefsFile)
    /\ UNCHANGED <<patternsFile, compatFile, machineVars>>

DoMcp(p) ==
    /\ At(p, "mcp")
    /\ \E env \in Proc(p).envs :
          Stepped(p, "mcp",
                  [env |-> env,
                   mcp_validation |-> _validate_with_mcp(Proc(p).final_stack, env)])
    /\ UNCHANGED <<storeVars, machineVars>>

\* _learn_from_interaction: patterns = self._load_learned_patterns()
DoLearnLoad(p) ==
    /\ At(p, "learn_load")
    /\ Stepped(p, "learn_load", [learned |-> _load_learned_patterns(patternsFile)])
    /\ UNCHANGED <<storeVars, machineVars>>

\* a write that updates what the file holds at the time of the write
WrittenPatterns_Merged(file, learned, requirements, final_stack) ==
    Valid(LearnedPatterns(_load_learned_patterns(file), requirements, final_stack))

\* the file after open(patterns_file, 'w') and json.dump(patterns): the dict
\* loaded earlier, updated, replaces whatever the file holds by now
WrittenPatterns(file, learned, requirements, final_stack) ==
    Valid(LearnedPatterns(learned, requirements, final_stack))

\* _learn_from_interaction: the update of the loaded dict and json.dump; the
\* statements after it build the returned dict from locals
DoLearnWrite(p) ==
    /\ At(p, "learn_write")
    /\ patternsFile' = WrittenPatterns(patternsFile, Proc(p).learned,
                                       Proc(p).requirements, Proc(p).final_stack)
    /\ Stepped(p, "learn_write",
               [writes |-> Append(Proc(p).writes, "learn_write"),
                wrote_after |-> unit.written,
                returned |-> [recommended_stack |-> Proc(p).final_stack,
                              mcp_validation |-> Proc(p).mcp_validation]])
    /\ UNCHANGED <<prefsFile, compatFile, machineVars>>

NextPipeline ==
    \/ \E p \in Procs : DoStructured(p)
    \/ \E p \in Procs : DoParse(p)
    \/ \E p \in Procs : DoLoadPreferences(p)
    \/ \E p \in Procs : DoLoadPatterns(p)
    \/ \E p \in Procs : DoAnalyzeContext(p)
    \/ \E p \in Procs : DoGenerate(p)
    \/ \E p \in Procs : DoGenerateRaises(p)
    \/ \E p \in Procs : DoValidate(p)
    \/ \E p \in Procs : DoFill(p)
    \/ \E p \in Procs : DoFilter(p)
    \/ \E p \in Procs : DoMcp(p)
    \/ \E p \in Procs : DoLearnLoad(p)
    \/ \E p \in Procs : DoLearnWrite(p)

\* the sequential machine's variables, unused while invocations are stepped
MachineIdle ==
    /\ lastOp = "pipeline"
    /\ userInput = NoCall /\ req = NoCall /\ draft = NoCall
    /\ validated = NoCall /\ complete = NoCall /\ final = NoCall
    /\ winBase = <<>> /\ winCalls = <<>>
    /\ nOps = 0

\* a preferences file with an empty backend map and no database_preferences
PrefsNoBackend ==
    [ framework_preferences |->
          [ frontend |-> << <<"vue", 9>> >>, backend |-> <<>> ],
      hosting_preferences |-> << <<"netlify", 9>> >>,
      open_source_bias |-> 9 ]

\* a preferences file without framework_preferences
PrefsNoFrameworks ==
    [ database_preferences |-> << <<"mongodb-atlas", 9>> >>,
      hosting_preferences |-> << <<"vercel", 9>> >>,
      open_source_bias |-> 9 ]

PipelinePrefsFiles ==
    { Absent, Corrupt, Valid(PrefsLowBias), Valid(PrefsEmptyHosting),
      Valid(PrefsNoBackend), Valid(PrefsNoFrameworks) }

\* one invocation, through either entry point
InitPipeline ==
    /\ MachineIdle
    /\ prefsFile \in PipelinePrefsFiles
    /\ patternsFile \in InitialPatternsFiles
    /\ compatFile \in {Absent, Valid(CompatCustom)}
    /\ \E entry \in {"analyze", "structured"}, ui \in UserInputs :
          unit = [fn |-> "pipeline", store0 |-> patternsFile, written |-> <<>>,
                  procs |-> [p \in {1} |-> NewInvocation(entry, ui, Contexts, McpEnvs)]]

SpecPipeline == InitPipeline /\ [][NextPipeline]_vars

\* two invocations on one home directory, in every interleaving of their steps
ConcurrentInputs ==
    { [type |-> "webapp", description |-> "a react and fastapi app with postgres",
       devices |-> <<"web">>],
      [type |-> "api", description |-> "mongodb", devices |-> <<"web">>] }

InitConcurrent ==
    /\ MachineIdle
    /\ prefsFile \in {Absent, Valid(PrefsEmptyHosting)}
    /\ patternsFile \in {Absent, Valid(PatternsSeed)}
    /\ compatFile = Absent
    /\ \E entry \in {"analyze", "structured"}, ui1 \in ConcurrentInputs,
          ui2 \in ConcurrentInputs :
          unit = [fn |-> "pipeline", store0 |-> patternsFile, written |-> <<>>,
                  procs |-> [p \in {1, 2} |->
                      NewInvocation(IF p = 1 THEN entry ELSE "analyze",
                                    IF p = 1 THEN ui1 ELSE ui2,
                                    {[detected_languages |-> {}]},
                                    {e \in McpEnvs : ~e.raises /\ Len(e.active) = 0})]]

SpecConcurrent == InitConcurrent /\ [][NextPipeline]_vars

\* the signature an invocation learns
SignatureOf(p) == ComboKey(Proc(p).final_stack)

\* the count of a signature in a loaded pattern dict
CountIn(patterns, signature) ==
    Get(Get(patterns, "usage_frequency", <<>>), signature, 0)

\* the invocation whose write of the pattern store was the last one
LastWriter == unit.written[Len(unit.written)]

\* both invocations have returned, having learned the same signature
BothLearnedSame ==
    /\ \A p \in Procs : Proc(p).pc = "done"
    /\ \A p, q \in Procs : SignatureOf(p) = SignatureOf(q)

\* C11: pattern store writes are unlocked whole-file overwrites and the last
\* writer wins.  Whatever another invocation wrote between an invocation's
\* load and its write, the store after the write is what that invocation
\* loaded with its own signature raised by 1; so when both invocations have
\* returned for the same signature the count has risen by 1 or by 2.
LastWriterWins ==
    (unit.fn = "pipeline" /\ Len(unit.written) > 0) =>
        LET p == LastWriter
            loaded == Get(Proc(p).learned, "usage_frequency", <<>>)
            stored == UsageFrequency(patternsFile)
        IN  /\ patternsFile.state = "valid"
            /\ DOMAIN stored = DOMAIN loaded \cup {SignatureOf(p)}
            /\ \A k \in DOMAIN stored :
                  stored[k] = IF k = SignatureOf(p)
                              THEN CountIn(Proc(p).learned, k) + 1
                              ELSE loaded[k]
            /\ BothLearnedSame =>
                  CountIn(_load_learned_patterns(patternsFile), SignatureOf(p))
                      - CountIn(_load_learned_patterns(unit.store0), SignatureOf(p))
                          \in {1, 2}

\* the lost update: both invocations returned for the signature the store
\* already counted, and its count has risen by 1 only
LastWriterWinsWitness ==
    /\ unit.fn = "pipeline" /\ Cardinality(Procs) = 2
    /\ BothLearnedSame
    /\ CountIn(_load_learned_patterns(unit.store0), SignatureOf(1)) = 2
    /\ CountIn(_load_learned_patterns(patternsFile), SignatureOf(1)) = 3

\* the MCP integration raised, or reported no available integration, in p
McpUnavailable(p) ==
    /\ unit.fn = "pipeline"
    /\ Proc(p).env # NoCall
    /\ Proc(p).env.raises \/ Len(Proc(p).env.active) = 0

\* C12: a failure of the external validation adapter never fails the
\* pipeline.  When the MCP integration raises or reports no available
\* integration, _validate_with_mcp returns status 'failed' or
\* 'no_integrations' with empty security_issues and recommendations, and
\* analyze_and_recommend goes on to the learning write and returns the
\* recommended stack.
McpFailureSwallowed ==
    \A p \in Procs :
        McpUnavailable(p) =>
            LET r == Proc(p).mcp_validation
            IN  /\ r.status \in {"failed", "no_integrations"}
                /\ r.security_issues = <<>> /\ r.recommendations = <<>>
                /\ Proc(p).pc \in {"learn_load", "learn_write", "done"}
                /\ Proc(p).pc = "done" =>
                      /\ Proc(p).writes = <<"learn_write">>
                      /\ CountIn(_load_learned_patterns(patternsFile), SignatureOf(p))
                            = CountIn(_load_learned_patterns(Proc(p).at_entry),
                                      SignatureOf(p)) + 1
                      /\ Proc(p).returned.recommended_stack = Proc(p).final_stack
                      /\ Proc(p).returned.mcp_validation = r

\* an invocation that returned a stack although the integration raised
McpFailureSwallowedWitness ==
    /\ unit.fn = "pipeline"
    /\ McpUnavailable(1) /\ Proc(1).env.raises
    /\ Proc(1).pc = "done"
    /\ Proc(1).returned.mcp_validation.status = "failed"
    /\ Proc(1).returned.recommended_stack.backend = "fastapi"

\* the preference map of a category in the dict an invocation loaded; a
\* missing map reads as an empty one
LoadedMap(p, c) ==
    LET prefs == Proc(p).preferences
        frameworks == IF "framework_preferences" \in DOMAIN prefs
                      THEN prefs["framework_preferences"] ELSE <<>>
    IN  CASE c = "frontend" ->
                IF "frontend" \in DOMAIN frameworks THEN frameworks["frontend"] ELSE <<>>
          [] c = "backend" ->
                IF "backend" \in DOMAIN frameworks THEN frameworks["backend"] ELSE <<>>
          [] c = "database" ->
                IF "database_preferences" \in DOMAIN prefs
                THEN prefs["database_preferences"] ELSE <<>>
          [] c = "hosting" ->
                IF "hosting_preferences" \in DOMAIN prefs
                THEN prefs["hosting_preferences"] ELSE <<>>

\* the description named no technology of the category
NotSpecified(p, c) ==
    \/ c \notin DOMAIN Proc(p).requirements.user_specified
    \/ Len(Proc(p).requirements.user_specified[c]) = 0

\* the fallback of the category has no fixed answer and needs the map's maximum
NeedsMaximum(p, c) ==
    LET r == Proc(p).requirements
        languages == Proc(p).context.detected_languages
    IN  CASE c = "frontend" ->
                /\ r.project_type \in {"webapp", "mobile"}
                /\ \A i \in 1..Len(r.target_devices) : r.target_devices[i] # "mobile"
          [] c = "backend" ->
                /\ "python" \notin languages
                /\ "typescript" \notin languages /\ "javascript" \notin languages
          [] c = "database" -> "realtime" \notin DOMAIN r.constraints
          [] c = "hosting" -> TRUE

ForcedOnEmptyMap(p) ==
    \E c \in PrimarySlots :
        NotSpecified(p, c) /\ NeedsMaximum(p, c) /\ Len(LoadedMap(p, c)) = 0

\* the generator has been called in p
GeneratorCalled(p) ==
    unit.fn = "pipeline" /\ \E i \in 1..Len(Proc(p).trace) : Proc(p).trace[i] = "generate"

\* C13: empty preference maps fail fast.  When a category has no
\* user-specified technology and its fallback needs the maximum of an empty
\* or missing preference map, analyze_and_recommend ends in an error, returns
\* no stack, and leaves the pattern store exactly as it was before the call;
\* the call ends in that error in no other case.
EmptyMapFailsFast ==
    \A p \in Procs :
        GeneratorCalled(p) =>
            /\ ForcedOnEmptyMap(p) =>
                  /\ Proc(p).pc = "raised"
                  /\ Proc(p).recommendations = NoCall /\ Proc(p).final_stack = NoCall
                  /\ Proc(p).returned = NoCall
                  /\ Proc(p).writes = <<>>
                  /\ patternsFile = Proc(p).at_entry
            /\ Proc(p).pc = "raised" => ForcedOnEmptyMap(p)

\* a call for a web app without a named frontend, under a preferences file
\* without framework_preferences, has ended in the error; the store holds
\* what earlier runs left
EmptyMapFailsFastWitness ==
    /\ unit.fn = "pipeline"
    /\ Proc(1).pc = "raised"
    /\ "framework_preferences" \notin DOMAIN Proc(1).preferences
    /\ NotSpecified(1, "frontend") /\ NeedsMaximum(1, "frontend")
    /\ patternsFile = Valid(PatternsSeed)

-----------------------------------------------------------------------------
(* The three loaders on their own, each applied once to its file.  A file   *)
(* is absent, holds a JSON document, or holds text that is not a JSON       *)
(* document (state "corrupt": json.load raises JSONDecodeError).            *)

InitLoad ==
    /\ MachineIdle
    /\ prefsFile \in InitialPrefsFiles
    /\ patternsFile \in InitialPatternsFiles
    /\ compatFile \in InitialCompatFiles
    /\ unit = [fn |-> "load",
               before |-> [preferences |-> prefsFile, patterns |-> patternsFile,
                           compatibility |-> compatFile],
               result |-> <<>>]

\* the loader's result, recorded under the store's name
Loaded(store, value) ==
    /\ unit.fn = "load" /\ store \notin DOMAIN unit.result
    /\ unit' = [unit EXCEPT !.result = Put(@, store, value)]

LoadUserPreferences ==
    /\ Loaded("preferences", _load_user_preferences(prefsFile))
    /\ prefsFile' = PrefsFileAfterLoad(prefsFile)
    /\ UNCHANGED <<patternsFile, compatFile, machineVars>>

LoadLearnedPatterns ==
    /\ Loaded("patterns", _load_learned_patterns(patternsFile))
    /\ UNCHANGED <<storeVars, machineVars>>

LoadCompatibilityRules ==
    /\ Loaded("compatibility", _load_compatibility_rules(compatFile))
    /\ compatFile' = CompatFileAfterLoad(compatFile)
    /\ UNCHANGED <<prefsFile, patternsFile, machineVars>>

NextLoad == LoadUserPreferences \/ LoadLearnedPatterns \/ LoadCompatibilityRules

SpecLoad == InitLoad /\ [][NextLoad]_vars

\* what each loader returns when its file does not exist
HardCodedDefaults ==
    [ preferences |-> DefaultPreferences,
      patterns |-> [successful_combinations |-> <<>>, failed_combinations |-> <<>>,
                    usage_frequency |-> <<>>],
      compatibility |-> DefaultCompatibilityRules ]

-----------------------------------------------------------------------------
\* the step is an analyze_and_recommend call, returning or raising
IsCall == lastOp' \in {"recommend", "raised"}

-----------------------------------------------------------------------------
\* the six steps of the pipeline, in the documented order ("learn_load" is
\* the first statement of the learn step)
DocumentedSteps == <<"parse", "generate", "validate", "fill", "filter", "learn_load">>

IsDocumentedStep(step) == \E i \in 1..Len(DocumentedSteps) : DocumentedSteps[i] = step

IsPrefix(a, b) == Len(a) <= Len(b) /\ a = SubSeq(b, 1, Len(a))

\* C16: each analyze_and_recommend call runs parse, generate, validate,
\* gap-fill, open-source filter and learn exactly once each and in that
\* order, and the pattern store is written only by the final learn step:
\* once by a call that returns, and not before the filter has finished.
PipelineOrder ==
    unit.fn = "pipeline" =>
        \A p \in Procs :
            LET ran == SelectSeq(Proc(p).trace, IsDocumentedStep)
            IN  /\ IsPrefix(ran, DocumentedSteps)
                /\ Proc(p).pc = "done" =>
                      /\ ran = DocumentedSteps
                      /\ unit.written = <<p>>
                      /\ patternsFile # unit.store0
                /\ Proc(p).pc # "done" =>
                      /\ unit.written = <<>>
                      /\ patternsFile = unit.store0
                /\ Proc(p).pc = "learn_write" =>
                      SubSeq(ran, 1, 5) = SubSeq(DocumentedSteps, 1, 5)

\* a call made through get_structured_recommendations has returned
PipelineOrderWitness ==
    /\ unit.fn = "pipeline"
    /\ Proc(1).entry = "structured" /\ Proc(1).pc = "done"
    /\ Len(Proc(1).trace) = 12
    /\ patternsFile.state = "valid"

-----------------------------------------------------------------------------
(* The compatibility validator on its own: one call of                     *)
(* _validate_compatibility on a draft stack, with compatibility.json in    *)
(* each of its states.                                                     *)

\* a rules file that lists its pairs backend first and gives django no database
CompatReversed ==
    [ incompatible_combinations |-> <<"fastapi+react", "flask+vue">>,
      backend_database_support |-> [django |-> <<>>] ]

ValidateCompatFiles ==
    InitialCompatFiles \cup { Valid(<<>>), Valid(CompatReversed) }

\* draft stacks given to the validator directly
ValidateStacks ==
    { WithoutMissing(c) @@ rest :
        c \in [ frontend : {Missing, None, "", "react", "vue"},
                backend  : {Missing, None, "fastapi", "flask", "django", "go"},
                database : {Missing, None, "postgresql", "mongodb", "sqlite"} ],
        rest \in { <<>>,
                   [hosting |-> "vercel", tools |-> <<"git", "docker">>,
                    confidence_scores |-> [frontend |-> 9, backend |-> 8]],
                   [hosting |-> None, tools |-> <<>>, confidence_scores |-> <<>>,
                    compatibility_issues |->
                        <<"vue and flask have known compatibility issues">>] } }

\* the descriptions of the two documented scenarios
ScenarioInputs ==
    { ui \in UserInputs :
        ui.description \in {"a react and fastapi app with postgres", "Vue and Flask app"} }

\* the draft the generator hands to the validator for a scenario input, with
\* the default preferences and an empty pattern store
ScenarioDraft(ui) ==
    _generate_recommendations(ParsedInputs[ui].requirements, DefaultPreferences,
                              DefaultPatterns, [detected_languages |-> {}])

InitValidate ==
    /\ MachineIdle
    /\ prefsFile = Absent
    /\ patternsFile = Absent
    /\ compatFile \in ValidateCompatFiles
    /\ \/ \E s \in ValidateStacks :
             unit = [fn |-> "validate", description |-> None, stack |-> s,
                     file0 |-> compatFile, step |-> 0, out |-> NoCall]
       \/ \E ui \in ScenarioInputs :
             unit = [fn |-> "validate", description |-> ui.description,
                     stack |-> ScenarioDraft(ui),
                     file0 |-> compatFile, step |-> 0, out |-> NoCall]

Validate ==
    /\ unit.fn = "validate" /\ unit.step = 0
    /\ unit' = [unit EXCEPT !.step = 1,
                            !.out = _validate_compatibility(unit.stack,
                                        _load_compatibility_rules(compatFile))]
    /\ compatFile' = CompatFileAfterLoad(compatFile)
    /\ UNCHANGED <<prefsFile, patternsFile, machineVars>>

NextValidate == Validate

SpecValidate == InitValidate /\ [][NextValidate]_vars

\* the validator has returned
ValidatorReturned == unit.fn = "validate" /\ unit.step = 1

\* the rules the call read
RulesRead == _load_compatibility_rules(unit.file0)

IssuesOut == unit.out.compatibility_issues

\* slot of the draft stack, None when the key is missing
DraftSlot(category) == Get(unit.stack, category, None)

AdvisoryOnlyKeys ==
    {"frontend", "backend", "database", "hosting", "tools", "confidence_scores"}

\* C17: the validator is advisory-only: the stack it returns has the
\* input's frontend, backend, database, hosting, tools and confidence_scores,
\* the only key it sets is compatibility_issues, and it returns the stack
\* whatever the number of issues.
ValidatorAdvisoryOnly ==
    ValidatorReturned =>
        /\ unit.out # NoCall
        /\ DOMAIN unit.out = DOMAIN unit.stack \cup {"compatibility_issues"}
        /\ \A k \in DOMAIN unit.stack \ {"compatibility_issues"} :
              unit.out[k] = unit.stack[k]
        /\ \A k \in AdvisoryOnlyKeys :
              k \in DOMAIN unit.out <=> k \in DOMAIN unit.stack

\* two issues found, and the stack still returned whole
ValidatorAdvisoryOnlyWitness ==
    /\ ValidatorReturned
    /\ Len(IssuesOut) = 2
    /\ DraftSlot("frontend") = "react" /\ DraftSlot("backend") = "fastapi"
    /\ Get(unit.out, "tools", <<>>) = <<"git", "docker">>

PairAdvisory ==
    Fmt(DraftSlot("frontend")) \o " and " \o Fmt(DraftSlot("backend"))
        \o " have known compatibility issues"

PairListed ==
    (Fmt(DraftSlot("frontend")) \o "+" \o Fmt(DraftSlot("backend")))
        \in Range(Get(RulesRead, "incompatible_combinations", <<>>))

DefaultRulesRead == RulesRead = DefaultCompatibilityRules

\* C18: the advisory '<frontend> and <backend> have known compatibility
\* issues' is in the result if and only if frontend and backend are both set
\* and '<frontend>+<backend>' is in incompatible_combinations; with the
\* default rules the vue-and-flask description gets the advisory naming vue
\* and flask and the react-and-fastapi description gets no issue.
PairAdvisoryIff ==
    ValidatorReturned =>
        /\ PairAdvisory \in Range(IssuesOut)
              <=> /\ Truthy(DraftSlot("frontend")) /\ Truthy(DraftSlot("backend"))
                  /\ PairListed
        /\ (DefaultRulesRead /\ unit.description = "Vue and Flask app") =>
              "vue and flask have known compatibility issues" \in Range(IssuesOut)
        /\ (DefaultRulesRead
               /\ unit.description = "a react and fastapi app with postgres") =>
              IssuesOut = <<>>

PairAdvisoryIffWitness ==
    /\ ValidatorReturned
    /\ unit.description = "Vue and Flask app"
    /\ unit.file0 = Absent
    /\ IssuesOut = <<"vue and flask have known compatibility issues">>

SupportAdvisory ==
    Fmt(DraftSlot("backend")) \o " has limited support for " \o Fmt(DraftSlot("database"))

SupportTable == Get(RulesRead, "backend_database_support", <<>>)

BothSet == Truthy(DraftSlot("backend")) /\ Truthy(DraftSlot("database"))

\* C19 as stated: whenever backend and database are both set and the database
\* is not among the databases backend_database_support lists for the backend,
\* the advisory '<backend> has limited support for <database>' is in the
\* result; when the database is listed it is not.
SupportAdvisoryWhenever ==
    (ValidatorReturned /\ BothSet) =>
        (SupportAdvisory \in Range(IssuesOut)
            <=> DraftSlot("database")
                    \notin Range(Get(SupportTable, DraftSlot("backend"), <<>>)))

\* C19, amended: the advisory '<backend> has limited support for <database>'
\* is in the result exactly when backend and database are both set, the
\* backend has an entry in backend_database_support and the database is not
\* in that entry; a backend without an entry gets no such advisory.
SupportAdvisoryForListedBackend ==
    ValidatorReturned =>
        (SupportAdvisory \in Range(IssuesOut)
            <=> /\ BothSet
                /\ DraftSlot("backend") \in DOMAIN SupportTable
                /\ DraftSlot("database") \notin Range(SupportTable[DraftSlot("backend")]))

\* django with mongodb under the default rules
SupportAdvisoryWitness ==
    /\ ValidatorReturned
    /\ DefaultRulesRead
    /\ DraftSlot("backend") = "django" /\ DraftSlot("database") = "mongodb"
    /\ IssuesOut = <<"django has limited support for mongodb">>

-----------------------------------------------------------------------------
(* The parser on its own: _parse_requirements on a description, then the   *)
(* generator and the validator on what it returned, with the default       *)
(* preferences and rules.                                                  *)

\* descriptions with several technologies of one table, in and out of table
\* order, with several keywords of one technology, and with keywords inside
\* other words
ParseDescriptions ==
    { "a react and fastapi app with postgres",
      "Vue and Flask app",
      "flask api with vue frontend",
      "Django or FastAPI, SQLite then Postgres",
      "React with JSX and TSX on Next.js",
      "mongodb",
      "golang gin service on fly.io",
      "render workers, pg and Firestore",
      "svelte sveltekit nuxt",
      "rails and laravel on AWS with mysql",
      "a todo list",
      "" }

ParseInputs ==
    { WithoutMissing(c) :
        c \in [ type : {Missing, "webapp", "api"},
                description : ParseDescriptions,
                devices : {Missing, <<"web">>, <<"web", "mobile">>, <<"mobile">>} ] }
        \cup { [type |-> "webapp"] }

InitParse ==
    /\ MachineIdle
    /\ prefsFile = Absent
    /\ patternsFile = Absent
    /\ compatFile = Absent
    /\ \E ui \in ParseInputs :
          unit = [fn |-> "parse", user_input |-> ui, step |-> 0,
                  requirements |-> NoCall, recommendations |-> NoCall,
                  validated_stack |-> NoCall]

ParseRequirements ==
    /\ unit.fn = "parse" /\ unit.step = 0
    /\ unit' = [unit EXCEPT !.step = 1,
                            !.requirements = _parse_requirements(unit.user_input)]
    /\ UNCHANGED <<storeVars, machineVars>>

GenerateFromParsed ==
    /\ unit.fn = "parse" /\ unit.step = 1
    /\ \E context \in Contexts :
          unit' = [unit EXCEPT
                      !.step = 2,
                      !.recommendations =
                          _generate_recommendations(unit.requirements,
                              _load_user_preferences(prefsFile),
                              _load_learned_patterns(patternsFile), context)]
    /\ prefsFile' = PrefsFileAfterLoad(prefsFile)
    /\ UNCHANGED <<patternsFile, compatFile, machineVars>>

ValidateGenerated ==
    /\ unit.fn = "parse" /\ unit.step = 2
    /\ unit' = [unit EXCEPT
                   !.step = 3,
                   !.validated_stack =
                       _validate_compatibility(unit.recommendations,
                           _load_compatibility_rules(compatFile))]
    /\ compatFile' = CompatFileAfterLoad(compatFile)
    /\ UNCHANGED <<prefsFile, patternsFile, machineVars>>

NextParse == ParseRequirements \/ GenerateFromParsed \/ ValidateGenerated

SpecParse == InitParse /\ [][NextParse]_vars

\* the lower-cased description the parser searched
TextSearched == Lower(Get(unit.user_input, "description", ""))

\* position of a technology in its keyword table, 0 when it is not there
TableIndex(category, tech) ==
    LET table == PatternsOf(category)
        at == {i \in 1..Len(table) : table[i][1] = tech}
    IN  IF at = {} THEN 0 ELSE CHOOSE i \in at : TRUE

\* some keyword variant of the table's i-th technology is in the text
Mentioned(category, i) ==
    LET keywords == PatternsOf(category)[i][2]
    IN  \E k \in 1..Len(keywords) : Contains(TextSearched, keywords[k])

ParsedCategories == {"frontend", "backend", "database", "hosting"}

ScenarioParsed ==
    /\ unit.fn = "parse"
    /\ unit.user_input = [type |-> "webapp",
                          description |-> "a react and fastapi app with postgres",
                          devices |-> <<"web">>]

\* C20: a technology is in user_specified[category] exactly when one of its
\* keyword variants is a substring of the lower-cased description; the
\* detected technologies are in keyword-table order, each once; the generator
\* takes the first of the list with confidence 0.9; and 'a react and fastapi
\* app with postgres' gives react, fastapi, postgresql at 0.9 each and no
\* compatibility issue.
ParseFirstMention ==
    (unit.fn = "parse" /\ unit.step >= 1) =>
        LET us == unit.requirements.user_specified
        IN  /\ DOMAIN us \subseteq ParsedCategories
            /\ \A c \in ParsedCategories :
                  LET list == Get(us, c, <<>>)
                  IN  /\ c \in DOMAIN us => list # <<>>
                      /\ \A i \in 1..Len(PatternsOf(c)) :
                            PatternsOf(c)[i][1] \in Range(list) <=> Mentioned(c, i)
                      /\ \A a \in 1..Len(list) : TableIndex(c, list[a]) > 0
                      /\ \A a, b \in 1..Len(list) :
                            a < b => TableIndex(c, list[a]) < TableIndex(c, list[b])
                      /\ (unit.step >= 2 /\ c \in DOMAIN us) =>
                            /\ unit.recommendations[c] = us[c][1]
                            /\ unit.recommendations.confidence_scores[c] = ConfUser
            /\ (ScenarioParsed /\ unit.step = 3) =>
                  /\ unit.validated_stack.frontend = "react"
                  /\ unit.validated_stack.backend = "fastapi"
                  /\ unit.validated_stack.database = "postgresql"
                  /\ \A c \in {"frontend", "backend", "database"} :
                        unit.validated_stack.confidence_scores[c] = ConfUser
                  /\ unit.validated_stack.compatibility_issues = <<>>

\* django comes first in the text, fastapi first in the table: fastapi is
\* chosen (go is detected inside the word django)
ParseFirstMentionWitness ==
    /\ unit.fn = "parse" /\ unit.step = 3
    /\ Get(unit.user_input, "description", "") = "Django or FastAPI, SQLite then Postgres"
    /\ unit.requirements.user_specified.backend = <<"fastapi", "django", "go">>
    /\ unit.requirements.user_specified.database = <<"postgresql", "sqlite">>
    /\ unit.validated_stack.backend = "fastapi"
    /\ unit.validated_stack.database = "postgresql"

-----------------------------------------------------------------------------
\* the devices the caller gave, none when the key is missing
DevicesGiven == Range(Get(unit.user_input, "devices", <<>>))

MobileDetected ==
    \/ Contains(TextSearched, "mobile")
    \/ Contains(TextSearched, "ios")
    \/ Contains(TextSearched, "android")

DesktopDetected ==
    \/ Contains(TextSearched, "desktop")
    \/ Contains(TextSearched, "electron")
    \/ Contains(TextSearched, "tauri")

\* C21: for every input, the target_devices the parser returns contains web,
\* and contains mobile or desktop only when the input's devices held it or a
\* keyword of the description detected it.
TargetDevicesHoldWeb ==
    (unit.fn = "parse" /\ unit.step >= 1) =>
        LET devices == Range(unit.requirements.target_devices)
        IN  /\ "web" \in devices
            /\ "mobile" \in devices => ("mobile" \in DevicesGiven \/ MobileDetected)
            /\ "desktop" \in devices => ("desktop" \in DevicesGiven \/ DesktopDetected)

-----------------------------------------------------------------------------
\* a list holds no element twice
NoDuplicates(list) ==
    \A i, j \in 1..Len(list) : list[i] = list[j] => i = j

\* C28: _parse_requirements does not modify its argument: however often the
\* same user_input was parsed (twice on the get_structured_recommendations
\* path), user_input is as the caller built it and target_devices holds each
\* device at most once.
ParserLeavesArgument ==
    unit.fn = "pipeline" =>
        \A p \in Procs :
            /\ Proc(p).user_input = Proc(p).given
            /\ Proc(p).requirements # NoCall =>
                  NoDuplicates(Proc(p).requirements.target_devices)

-----------------------------------------------------------------------------
\* the keys of a preference map that hold its maximum score
TopKeys(items) == {items[i][1] : i \in TopPositions(items)}

FrontendFallbackResult ==
    /\ "mobile" \in Range(unit.requirements.target_devices) =>
          unit.out.frontend = "react-native"
    /\ "mobile" \notin Range(unit.requirements.target_devices) =>
          unit.out.frontend \in TopKeys(PrefMap("frontend"))
    /\ "frontend" \in DOMAIN unit.out.confidence_scores
    /\ unit.out.confidence_scores["frontend"] = 8

\* C22 as stated: for every requirement record with no user-specified
\* frontend, whatever its project type, the generator sets frontend to
\* react-native when mobile is a target device and to a maximum-scored entry
\* of the frontend preference map otherwise, with confidence 0.8.
FrontendFallbackEveryType ==
    (Generated /\ ~FromUser("frontend")) => FrontendFallbackResult

\* C22, amended: the frontend fallback runs for project types webapp and
\* mobile only; for any other project type a frontend that is not
\* user-specified stays None and gets no confidence entry.
FrontendFallbackWebOrMobile ==
    (Generated /\ ~FromUser("frontend")) =>
        IF unit.requirements.project_type \in {"webapp", "mobile"}
        THEN FrontendFallbackResult
        ELSE /\ unit.out.frontend = None
             /\ "frontend" \notin DOMAIN unit.out.confidence_scores

\* a web application for web and mobile devices gets react-native
FrontendFallbackWitness ==
    /\ Generated /\ ~FromUser("frontend")
    /\ unit.requirements.project_type = "webapp"
    /\ unit.requirements.target_devices = <<"web", "mobile">>
    /\ unit.out.frontend = "react-native"
    /\ unit.out.confidence_scores["frontend"] = 8

-----------------------------------------------------------------------------
\* a language of the project context fixes the backend
LanguageMatched(p) ==
    Proc(p).context.detected_languages \cap {"python", "typescript", "javascript"} # {}

\* C23: when no backend is user-specified the generator chooses fastapi for a
\* python project, else express for a typescript or javascript project, else
\* a maximum-scored entry of the backend preference map, with confidence 0.7
\* in all three cases; when a language matched the backend preference map is
\* not consulted, so the call fails on an empty map of another category only.
BackendFallback ==
    unit.fn = "pipeline" =>
        \A p \in Procs :
            (GeneratorCalled(p) /\ NotSpecified(p, "backend")) =>
                LET languages == Proc(p).context.detected_languages
                    stack == Proc(p).recommendations
                IN  /\ stack # NoCall =>
                          /\ "python" \in languages => stack.backend = "fastapi"
                          /\ ("python" \notin languages
                                 /\ languages \cap {"typescript", "javascript"} # {}) =>
                                stack.backend = "express"
                          /\ ~LanguageMatched(p) =>
                                stack.backend \in TopKeys(LoadedMap(p, "backend"))
                          /\ stack.confidence_scores["backend"] = 7
                    /\ LanguageMatched(p) =>
                          (stack = NoCall <=>
                              \E c \in PrimarySlots \ {"backend"} :
                                  /\ NotSpecified(p, c) /\ NeedsMaximum(p, c)
                                  /\ Len(LoadedMap(p, c)) = 0)

\* a python project under a preferences file with an empty backend map
BackendFallbackWitness ==
    /\ unit.fn = "pipeline"
    /\ Proc(1).pc = "done"
    /\ NotSpecified(1, "backend")
    /\ "python" \in Proc(1).context.detected_languages
    /\ Len(LoadedMap(1, "backend")) = 0
    /\ Proc(1).final_stack.backend = "fastapi"
    /\ Proc(1).final_stack.confidence_scores["backend"] = 7

-----------------------------------------------------------------------------
\* C24: the tools of the returned stack follow from its final choices: git is
\* always among them, no tool appears twice, vercel-cli is there iff the
\* final hosting is vercel, railway-cli iff it is railway, psql iff the final
\* database is postgresql and mongosh iff it is mongodb.
ToolsMatchFinalStack ==
    (lastOp = "recommend" /\ final # NoCall) =>
        LET tools == Range(final.tools)
        IN  /\ "git" \in tools
            /\ NoDuplicates(final.tools)
            /\ "vercel-cli" \in tools <=> final.hosting = "vercel"
            /\ "railway-cli" \in tools <=> final.hosting = "railway"
            /\ "psql" \in tools <=> final.database = "postgresql"
            /\ "mongosh" \in tools <=> final.database = "mongodb"

-----------------------------------------------------------------------------
\* C25: in every returned stack the auth slot agrees with the final database:
\* supabase-auth only with database supabase, firebase-auth only with
\* database firebase, jwt only with any other database; and auth is present
\* only for project types webapp and mobile.
AuthAgreesWithDatabase ==
    (lastOp = "recommend" /\ final # NoCall) =>
        LET auth == Get(final, "auth", None)
        IN  /\ auth = "supabase-auth" => final.database = "supabase"
            /\ auth = "firebase-auth" => final.database = "firebase"
            /\ auth = "jwt" => final.database \notin {"supabase", "firebase"}
            /\ "auth" \in DOMAIN final => req.project_type \in {"webapp", "mobile"}

-----------------------------------------------------------------------------
\* the call read the default preferences (the file was absent, unparseable
\* or held the defaults, and holds the defaults now)
DefaultPreferencesRead == prefsFile = Valid(DefaultPreferences)

\* C30: validator, gap filler and open-source filter leave confidence_scores
\* as the generator set them, so a substituted category keeps the confidence
\* of the technology replaced: a user-specified vercel comes back as railway
\* with confidence 0.9, and under the default preferences the returned
\* hosting is never vercel.
ConfidenceSurvivesSubstitution ==
    (lastOp = "recommend" /\ final # NoCall) =>
        /\ validated.confidence_scores = draft.confidence_scores
        /\ complete.confidence_scores = draft.confidence_scores
        /\ final.confidence_scores = draft.confidence_scores
        /\ (DefaultPreferencesRead /\ UserChoice(req, "hosting") = "vercel") =>
              /\ final.hosting = "railway"
              /\ final.confidence_scores["hosting"] = 9
        /\ DefaultPreferencesRead => final.hosting # "vercel"

\* 'Firebase app on Vercel' under the default preferences: hosting and
\* database are both substituted and keep 0.9
ConfidenceSurvivesSubstitutionWitness ==
    /\ lastOp = "recommend" /\ final # NoCall
    /\ DefaultPreferencesRead
    /\ draft.hosting = "vercel" /\ draft.database = "firebase"
    /\ final.hosting = "railway" /\ final.database = "supabase"
    /\ final.confidence_scores["hosting"] = 9
    /\ final.confidence_scores["database"] = 9

-----------------------------------------------------------------------------
OnlyMongodb ==
    /\ unit.fn = "parse"
    /\ "description" \in DOMAIN unit.user_input
    /\ unit.user_input.description = "mongodb"

\* C29: keyword detection ignores word boundaries: for the description
\* 'mongodb' the parser puts mongodb in user_specified['database'] and go in
\* user_specified['backend'] (the keyword go inside mongodb), and the
\* generator returns backend go with confidence 0.9 whatever the project
\* context, instead of the backend fallback.
EmbeddedKeywordDetected ==
    OnlyMongodb =>
        /\ unit.step >= 1 =>
              /\ "database" \in DOMAIN unit.requirements.user_specified
              /\ unit.requirements.user_specified["database"] = <<"mongodb">>
              /\ "backend" \in DOMAIN unit.requirements.user_specified
              /\ unit.requirements.user_specified["backend"] = <<"go">>
        /\ unit.step >= 2 =>
              /\ unit.recommendations.backend = "go"
              /\ unit.recommendations.confidence_scores["backend"] = ConfUser
              /\ unit.recommendations.database = "mongodb"

EmbeddedKeywordDetectedWitness ==
    /\ OnlyMongodb /\ unit.step = 3
    /\ unit.validated_stack.backend = "go"
    /\ unit.validated_stack.confidence_scores["backend"] = 9
    /\ prefsFile = Valid(DefaultPreferences)

-----------------------------------------------------------------------------
RECURSIVE SumOfRows(_, _, _)
\* the sum over the project types in `types` of pta[t][signature]
SumOfRows(pta, types, signature) ==
    IF types = {} THEN 0
    ELSE LET t == CHOOSE t \in types : TRUE
         IN  Get(pta[t], signature, 0) + SumOfRows(pta, types \ {t}, signature)

\* every signature counted in either map of the store
SignaturesCounted(uf, pta) ==
    DOMAIN uf \cup UNION {DOMAIN pta[t] : t \in DOMAIN pta}

\* the window began with a store without counts: the file was absent, or a
\* reset deleted it
BeganWithoutCounts == winBase = <<>>

\* C26: pattern map agreement.  From an absent pattern store, after any
\* sequence of successful calls and resets, usage_frequency[s] equals the
\* sum over the project types t of project_type_associations[t][s] for every
\* signature s, and both equal the number of successful calls that produced
\* s since the last reset.
PatternMapsAgree ==
    BeganWithoutCounts =>
        LET uf  == UsageFrequency(patternsFile)
            pta == ProjectTypeAssociations(patternsFile)
        IN  \A s \in SignaturesCounted(uf, pta) \cup DOMAIN winCalls :
                /\ Get(uf, s, 0) = SumOfRows(pta, DOMAIN pta, s)
                /\ Get(uf, s, 0) = Get(winCalls, s, 0)

\* one signature learned under two project types
PatternMapsAgreeWitness ==
    /\ BeganWithoutCounts
    /\ lastOp = "recommend" /\ nOps >= 2
    /\ \E s \in DOMAIN winCalls :
          /\ winCalls[s] = 2
          /\ Cardinality({t \in DOMAIN ProjectTypeAssociations(patternsFile) :
                             s \in DOMAIN ProjectTypeAssociations(patternsFile)[t]}) = 2

-----------------------------------------------------------------------------
(* `devalex tech reset` while invocations are in flight: the pipeline steps *)
(* of two invocations interleaved with one _reset_learning.                *)

InitReset ==
    /\ MachineIdle
    /\ prefsFile \in {Absent, Valid(PrefsEmptyHosting)}
    /\ patternsFile \in {Absent, Valid(PatternsSeed)}
    /\ compatFile = Absent
    /\ \E entry \in {"analyze", "structured"}, ui1 \in ConcurrentInputs,
          ui2 \in ConcurrentInputs :
          unit = [fn |-> "pipeline", store0 |-> patternsFile, written |-> <<>>,
                  procs |-> [p \in {1, 2} |->
                      NewInvocation(IF p = 1 THEN entry ELSE "analyze",
                                    IF p = 1 THEN ui1 ELSE ui2,
                                    {[detected_languages |-> {}]},
                                    {e \in McpEnvs : ~e.raises /\ Len(e.active) = 0})],
                  reset |-> [asked |-> FALSE, deleted |-> FALSE,
                             stale |-> {}, finished |-> {}]]

\* _reset_learning answered with `confirm`: the three files are deleted.  The
\* history fields record which invocations had loaded the pattern store and
\* not yet written it, and which had returned.
ResetInFlight(confirm) ==
    /\ unit.fn = "pipeline" /\ "reset" \in DOMAIN unit
    /\ ~unit.reset.asked
    /\ IF Lower(confirm) # "y"
       THEN /\ unit' = [unit EXCEPT !.reset.asked = TRUE]
            /\ UNCHANGED storeVars
       ELSE /\ prefsFile' = DeletedFile(prefsFile)
            /\ patternsFile' = DeletedFile(patternsFile)
            /\ compatFile' = DeletedFile(compatFile)
            /\ unit' = [unit EXCEPT
                           !.reset = [asked |-> TRUE, deleted |-> TRUE,
                                      stale |-> {p \in Procs : Proc(p).pc = "learn_write"},
                                      finished |-> {p \in Procs : Proc(p).pc = "done"}]]
    /\ UNCHANGED machineVars

NextReset ==
    \/ NextPipeline
    \/ \E confirm \in {"y", "N"} : ResetInFlight(confirm)

SpecReset == InitReset /\ [][NextReset]_vars

\* the invocations whose learn step read the store after the reset
LearnedAfterReset ==
    {p \in Procs \ (unit.reset.stale \cup unit.reset.finished) : Proc(p).pc = "done"}

\* C27: a reset is not undone by an invocation in flight.  Once the reset
\* has deleted the pattern file and every invocation has completed, each
\* count of the pattern store is covered by the learn steps that read the
\* store after the reset: no count loaded before the deletion is written back.
ResetNotUndone ==
    (/\ unit.fn = "pipeline" /\ "reset" \in DOMAIN unit
     /\ unit.reset.deleted
     /\ \A p \in Procs : Proc(p).pc \in {"done", "raised"}) =>
        \A s \in DOMAIN UsageFrequency(patternsFile) :
            UsageFrequency(patternsFile)[s]
                <= Cardinality({p \in LearnedAfterReset : SignatureOf(p) = s})

====
